---- MODULE Spec2Model ----
(***************************************************************************)
(* Off The Clock: the client-side balance projection (ProjectionsPage's    *)
(* chartData) and the duration helpers (formatHours / parseDuration).       *)
(*                                                                          *)
(* Numbers.  Hour amounts are exact integers counted in units of 1/6000    *)
(* hour (one hundredth of a minute), so that both two-decimal hours and     *)
(* whole or fractional minutes are representable.  Floating point error is  *)
(* not modelled.                                                            *)
(*                                                                          *)
(* Dates.  A Date is an instant counted in ticks of local wall-clock time:  *)
(* day * TicksPerDay + timeOfDay, day = days since 1970-01-01.  Daylight    *)
(* saving shifts are not modelled.                                          *)
(***************************************************************************)
EXTENDS Integers, Sequences, FiniteSets, TLC

(* ------------------------------ bounds --------------------------------- *)

\* longest projection horizon explored, in days (the page offers 30..365)
MaxProjectionDays == 20

\* resolution of the time of day carried by a Date
TicksPerDay == 2

\* ----------------------------- numbers ----------------------------------

\* units per hour: 60 minutes of 100 hundredths each
HourUnits == 60 * 100

Hours(n) == n * HourUnits

Min(a, b) == IF a <= b THEN a ELSE b

Abs(a) == IF a < 0 THEN 0 - a ELSE a

\* an optional number (number | null | undefined): <<>> is null, <<v>> is v
Null == <<>>

Some(v) == <<v>>

\* JavaScript truthiness of an optional number: null, undefined and 0 are falsy
Truthy(opt) == opt # Null /\ opt[1] # 0

\* `opt || 0`
OrZero(opt) == IF Truthy(opt) THEN opt[1] ELSE 0

\* Number(x.toFixed(2)): round to the nearest hundredth of an hour, half away
\* from zero
ToFixed2(x) ==
    LET q == HourUnits \div 100
    IN  IF x >= 0 THEN ((2 * x + q) \div (2 * q)) * q
        ELSE 0 - (((2 * (0 - x) + q) \div (2 * q)) * q)

\* ----------------------------- calendar ---------------------------------

\* days since 1970-01-01 of the civil date y-m-d (proleptic Gregorian)
DaysFromCivil(y, m, d) ==
    LET yy  == IF m <= 2 THEN y - 1 ELSE y
        era == yy \div 400
        yoe == yy - era * 400
        mp  == IF m > 2 THEN m - 3 ELSE m + 9
        doy == (153 * mp + 2) \div 5 + d - 1
        doe == yoe * 365 + yoe \div 4 - yoe \div 100 + doy
    IN  era * 146097 + doe - 719468

\* the civil date [y, m, d] of a day number
CivilFromDays(z) ==
    LET zz  == z + 719468
        era == zz \div 146097
        doe == zz - era * 146097
        yoe == (doe - doe \div 1460 + doe \div 36524 - doe \div 146096) \div 365
        doy == doe - (365 * yoe + yoe \div 4 - yoe \div 100)
        mp  == (5 * doy + 2) \div 153
        d   == doy - (153 * mp + 2) \div 5 + 1
        m   == IF mp < 10 THEN mp + 3 ELSE mp - 9
    IN  [y |-> yoe + era * 400 + (IF m <= 2 THEN 1 ELSE 0), m |-> m, d |-> d]

\* a Date at a given time of day
DateAt(y, m, d, tod) == DaysFromCivil(y, m, d) * TicksPerDay + tod

\* the local calendar day of a Date
DayOf(t) == t \div TicksPerDay

\* Date.prototype.getFullYear
GetFullYear(t) == CivilFromDays(DayOf(t)).y

\* Date.prototype.getMonth (0 = January)
GetMonth(t) == CivilFromDays(DayOf(t)).m - 1

\* Date.prototype.getDate (day of the month)
GetDate(t) == CivilFromDays(DayOf(t)).d

\* Date.prototype.getDay (0 = Sunday); 1970-01-01 was a Thursday
GetDay(t) == (DayOf(t) + 4) % 7

\* addDays stepping two days for each day asked
AddDaysSkipping(t, n) == t + 2 * n * TicksPerDay

\* date-fns addDays: same time of day, n days later
AddDays(t, n) == t + n * TicksPerDay

\* date-fns differenceInDays: the number of FULL days between two Dates,
\* truncated towards zero
DifferenceInDays(left, right) ==
    LET sign       == IF left < right THEN -1 ELSE IF left > right THEN 1 ELSE 0
        difference == Abs(DayOf(left) - DayOf(right))
        moved      == left - sign * difference * TicksPerDay
        cmp        == IF moved < right THEN -1 ELSE IF moved > right THEN 1 ELSE 0
        notFull    == IF sign # 0 /\ cmp = 0 - sign THEN 1 ELSE 0
    IN  sign * (difference - notFull)


\* -------------------------- projection: state ----------------------------

VARIABLES
    now,             \* the wall clock, what `new Date()` returns
    categories,      \* usePTOCategories().data
    projectionDays,  \* useState(180)
    pc,              \* "stale": chartData must be (re)computed, "loop": inside
                     \* the while loop, "done": chartData is up to date
    today, endDate,  \* locals of the chartData callback
    currentSimDate, currentYear,
    catStates,       \* per category [simBalance, yearlyAccrued]
    locals,          \* per category the loop body's locals of the last
                     \* iteration: [simDate, reset, balBefore, yaBefore,
                     \* grant, balAfterGrant, shouldAccrue, dailyAccrual, add]
    data,            \* the data points pushed so far: [fullDate, date, vals],
                     \* vals the balance under each category name
    chartData,       \* the memoised result
    history          \* the completed computations, oldest first:
                     \* [categories, today, projectionDays, data] of each

simVars == <<now, categories, projectionDays, pc, today, endDate,
             currentSimDate, currentYear, catStates, locals, data, chartData,
             history>>

VARIABLES
    durHours,   \* a stored hour amount handed to formatHours
    durText,    \* the text of a duration field
    durResult,  \* what parseDuration returned for the text
    durPc       \* "value": nothing formatted yet, "text": the field holds
                \* text, "parsed": the text was parsed, "off": not in use

durVars == <<durHours, durText, durResult, durPc>>

\* LogModal
VARIABLES
    amount,        \* the text of the duration field
    isUsage,       \* the Usage / Adjustment toggle
    logPc,         \* "off", "closed", "form" (open), "posting" (open, request sent)
    logPosted,     \* the amount of the last payload posted to /api/pto/log
    logAlert       \* the last alert shown: "none", "invalid", "failed"

logVars == <<amount, isUsage, logPc, logPosted, logAlert>>

\* the query client
VARIABLES
    queryCache,    \* per query key: status "absent", "fresh" or "stale", and
                   \* the ledger version its data was fetched at
    ledgerVersion  \* how many ledger mutations the server has applied

cacheVars == <<queryCache, ledgerVersion>>

\* Forecast
VARIABLES
    targetDate,        \* the date field: Null when empty, else a day number
    loading,           \* a forecast request is in flight
    projections,       \* Null, or the target day the shown forecast answers
    forecastRequests   \* the target days requested from /api/pto/forecast

forecastVars == <<targetDate, loading, projections, forecastRequests>>

\* AmazonPresetSection and the server's preset generator
VARIABLES
    tenure,            \* the Years of Service field's text
    shiftLength,       \* the shift length field's text
    shiftsPerWeek,     \* the shifts per week field's text
    presetPayload,     \* Null, or the payload handed to applyPreset
    presetCategories,  \* the categories the generator has returned
    presetPc           \* "off", "form", "pending", "loaded", "failed"

presetVars == <<tenure, shiftLength, shiftsPerWeek, presetPayload,
                presetCategories, presetPc>>

\* PTOSection: the category form, the listed categories and its requests
VARIABLES
    formOpen,          \* the settings page is mounted
    serverCategories,  \* the categories stored on the server, as listed
    editingId,         \* useState<number | null>(null)
    newCatRate,        \* the Accrual Rate field's text
    newCatInitial,     \* the Starting Balance field's text
    newCatMax,         \* the Max Balance field's text
    catInFlight,       \* the create, update and delete requests without a
                       \* response yet, oldest first; a delete carries the
                       \* editingId its onSuccess callback closed over
    catAlert,          \* the last alert shown, "none" before the first
    catPrompts         \* the confirm() prompts of the last click on a
                       \* Delete button with the answers given

formVars == <<formOpen, serverCategories, editingId, newCatRate, newCatInitial, newCatMax,
              catInFlight, catAlert, catPrompts>>

\* Calendar: the listed shifts and logs and the delete buttons
VARIABLES
    calShifts,         \* useShifts().data: [id, series_id], series_id Null
                       \* for a shift that does not recur
    calLogs,           \* the ids of the logs shown
    calPrompts,        \* the confirm() prompts of the last click with the
                       \* answers given, in order
    calInFlight        \* the delete requests without a response yet,
                       \* oldest first

calVars == <<calShifts, calLogs, calPrompts, calInFlight>>

\* generateRecurringShifts
VARIABLES
    genArgs,           \* the arguments and the host's time zone; Null
                       \* outside a call
    genD,              \* the loop variable d, a local instant in minutes
    genEnd,            \* end
    genShifts,         \* shifts
    genPc              \* "off", "called" before the loop, "loop", "returned"

genVars == <<genArgs, genD, genEnd, genShifts, genPc>>

appVars == <<logVars, cacheVars, forecastVars, presetVars, formVars, calVars,
             genVars>>

vars == <<simVars, durVars, appVars>>

\* AccrualFrequency
DAILY == "daily"

WEEKLY == "weekly"

BIWEEKLY == "biweekly"

MONTHLY == "monthly"

ANNUALLY == "annually"

AccrualFrequencies == {DAILY, WEEKLY, BIWEEKLY, MONTHLY, ANNUALLY}

\* -------------------- projection: the loop body --------------------------

\* AnnualGrant with the grant wrongly limited by the yearly cap's headroom
AnnualGrantCapped(cat, date) ==
    LET full == IF /\ Truthy(cat.annual_grant_amount)
                   /\ cat.annual_grant_amount[1] > 0
                   /\ GetMonth(date) = 0
                   /\ GetDate(date) = 1
                THEN cat.annual_grant_amount[1]
                ELSE 0
    IN  IF Truthy(cat.yearly_accrual_cap)
        THEN Min(full, cat.yearly_accrual_cap[1])
        ELSE full

\* 1. Check Annual Grant (Jan 1): what is added to simBalance
AnnualGrant(cat, date) ==
    IF /\ Truthy(cat.annual_grant_amount)
       /\ cat.annual_grant_amount[1] > 0
       /\ GetMonth(date) = 0
       /\ GetDate(date) = 1
    THEN cat.annual_grant_amount[1]
    ELSE 0

\* ShouldAccrue with an annual category that has a grant left to the grant
\* alone
ShouldAccrueExclusive(cat, date) ==
    LET startDate == cat.start_date
    IN  IF cat.accrual_frequency = WEEKLY THEN GetDay(date) = 0
        ELSE IF cat.accrual_frequency = BIWEEKLY THEN
            LET diff == DifferenceInDays(date, startDate)
            IN  diff > 0 /\ diff % 14 = 0
        ELSE IF cat.accrual_frequency = MONTHLY THEN GetDate(date) = 1
        ELSE IF cat.accrual_frequency = ANNUALLY THEN
            /\ GetMonth(date) = 0 /\ GetDate(date) = 1
            /\ ~Truthy(cat.annual_grant_amount)
        ELSE FALSE

\* ShouldAccrue with the weekly anchor off by one day (Saturday)
ShouldAccrueSaturday(cat, date) ==
    LET startDate == cat.start_date
    IN  IF cat.accrual_frequency = WEEKLY THEN GetDay(date) = 6
        ELSE IF cat.accrual_frequency = BIWEEKLY THEN
            LET diff == DifferenceInDays(date, startDate)
            IN  diff > 0 /\ diff % 14 = 0
        ELSE IF cat.accrual_frequency = MONTHLY THEN GetDate(date) = 1
        ELSE IF cat.accrual_frequency = ANNUALLY THEN
            GetMonth(date) = 0 /\ GetDate(date) = 1
        ELSE FALSE

\* 2. Check Accrual: shouldAccrue for the category on the simulated date
ShouldAccrue(cat, date) ==
    LET startDate == cat.start_date
    IN  IF cat.accrual_frequency = WEEKLY THEN GetDay(date) = 0
        ELSE IF cat.accrual_frequency = BIWEEKLY THEN
            LET diff == DifferenceInDays(date, startDate)
            IN  diff > 0 /\ diff % 14 = 0
        ELSE IF cat.accrual_frequency = MONTHLY THEN GetDate(date) = 1
        ELSE IF cat.accrual_frequency = ANNUALLY THEN
            GetMonth(date) = 0 /\ GetDate(date) = 1
        ELSE FALSE

\* 2. Check Accrual: dailyAccrual
DailyAccrual(cat, date) == IF ShouldAccrue(cat, date) THEN cat.accrual_rate ELSE 0

\* CappedAdd with an event that does not fully fit skipped instead of applied
\* in part
CappedAddSkip(cat, yearlyAccrued, dailyAccrual) ==
    IF Truthy(cat.yearly_accrual_cap) THEN
        LET remaining == cat.yearly_accrual_cap[1] - yearlyAccrued
        IN  IF remaining >= dailyAccrual THEN dailyAccrual ELSE 0
    ELSE dailyAccrual

\* 3. Apply Yearly Cap: the amount added to simBalance on an accrual event,
\* given the year's running total
CappedAdd(cat, yearlyAccrued, dailyAccrual) ==
    IF Truthy(cat.yearly_accrual_cap) THEN
        LET remaining == cat.yearly_accrual_cap[1] - yearlyAccrued
        IN  IF remaining > 0 THEN Min(dailyAccrual, remaining) ELSE 0
    ELSE dailyAccrual

\* 3. Apply Yearly Cap: the year's running total after the event; it only
\* moves on the capped branch
YearlyAccruedAfter(cat, yearlyAccrued, add) ==
    IF Truthy(cat.yearly_accrual_cap) THEN yearlyAccrued + add ELSE yearlyAccrued

\* ApplyMaxBalance with the clamp left out
ApplyMaxBalanceOff(cat, simBalance) == simBalance

\* ApplyMaxBalance with a floor at zero added to the upper clamp
ApplyMaxBalanceFloored(cat, simBalance) ==
    IF Truthy(cat.max_balance) /\ simBalance > cat.max_balance[1]
    THEN cat.max_balance[1]
    ELSE IF simBalance < 0 THEN 0 ELSE simBalance

\* 4. Apply Max Balance Cap
ApplyMaxBalance(cat, simBalance) ==
    IF Truthy(cat.max_balance) /\ simBalance > cat.max_balance[1]
    THEN cat.max_balance[1]
    ELSE simBalance

\* IsNewYear with the year never seen to change
IsNewYearNever(date, year) == FALSE

\* the new-year check at the top of an iteration
IsNewYear(date, year) == GetFullYear(date) # year

\* the running total a category enters the day with
YearlyAccruedAtStartOfDay(st, reset) == IF reset THEN 0 ELSE st.yearlyAccrued

\* CatDay with the periodic accrual added and clamped first and the annual
\* grant added after the clamp
CatDayGrantLast(cat, st, date, reset) ==
    LET ya0    == YearlyAccruedAtStartOfDay(st, reset)
        grant  == AnnualGrant(cat, date)
        should == ShouldAccrue(cat, date)
        daily  == DailyAccrual(cat, date)
        add    == IF should THEN CappedAdd(cat, ya0, daily) ELSE 0
        ya1    == IF should THEN YearlyAccruedAfter(cat, ya0, add) ELSE ya0
        bal3   == ApplyMaxBalance(cat, st.simBalance + add) + grant
    IN  [ st  |-> [simBalance |-> bal3, yearlyAccrued |-> ya1],
          loc |-> [simDate |-> date, reset |-> reset,
                   balBefore |-> st.simBalance, yaBefore |-> st.yearlyAccrued,
                   grant |-> grant, balAfterGrant |-> st.simBalance + add + grant,
                   shouldAccrue |-> should,
                   dailyAccrual |-> daily, add |-> add],
          out |-> ToFixed2(bal3) ]

\* one category's pass through the loop body on one simulated date: the
\* locals it computes and the state it leaves
CatDay(cat, st, date, reset) ==
    LET ya0    == YearlyAccruedAtStartOfDay(st, reset)
        grant  == AnnualGrant(cat, date)
        bal1   == st.simBalance + grant
        should == ShouldAccrue(cat, date)
        daily  == DailyAccrual(cat, date)
        add    == IF should THEN CappedAdd(cat, ya0, daily) ELSE 0
        ya1    == IF should THEN YearlyAccruedAfter(cat, ya0, add) ELSE ya0
        bal3   == ApplyMaxBalance(cat, bal1 + add)
    IN  [ st  |-> [simBalance |-> bal3, yearlyAccrued |-> ya1],
          loc |-> [simDate |-> date, reset |-> reset,
                   balBefore |-> st.simBalance, yaBefore |-> st.yearlyAccrued,
                   grant |-> grant, balAfterGrant |-> bal1,
                   shouldAccrue |-> should,
                   dailyAccrual |-> daily, add |-> add],
          out |-> ToFixed2(bal3) ]

\* InitialCatStates with the per-category state kept from the previous
\* computation instead of rebuilt
InitialCatStatesKept(cats) ==
    IF Len(catStates) = Len(cats) THEN catStates
    ELSE [i \in 1..Len(cats) |->
            [simBalance |-> cats[i].current_balance,
             yearlyAccrued |-> OrZero(cats[i].accrued_ytd)]]

\* catStates as built from the categories at the start of a computation
InitialCatStates(cats) ==
    [i \in 1..Len(cats) |->
        [simBalance |-> cats[i].current_balance,
         yearlyAccrued |-> OrZero(cats[i].accrued_ytd)]]

\* `dataPoint[cat.name] = ...` over catStates.forEach: the data point is keyed
\* by category name, and a later category writes over an earlier one of the
\* same name
DataPointValues(cats, outs) ==
    [n \in {cats[i].name : i \in 1..Len(cats)} |->
        LET last == CHOOSE i \in 1..Len(cats) :
                        /\ cats[i].name = n
                        /\ \A j \in 1..Len(cats) : cats[j].name = n => j <= i
        IN  outs[last]]

NoLocals == <<>>

\* ---------------------- projection: the actions --------------------------

\* chartData's callback with no categories: `return []`
SimEmpty ==
    /\ pc = "stale"
    /\ Len(categories) = 0
    /\ today' = now
    /\ data' = <<>>
    /\ locals' = NoLocals
    /\ chartData' = <<>>
    /\ pc' = "done"
    /\ history' = Append(history,
           [categories |-> categories, today |-> now,
            projectionDays |-> projectionDays, data |-> <<>>])
    /\ UNCHANGED <<now, categories, projectionDays, endDate, currentSimDate,
                   currentYear, catStates>>
    /\ UNCHANGED <<durVars, appVars>>

\* chartData's callback starts: everything before the while loop
SimStart ==
    /\ pc = "stale"
    /\ Len(categories) > 0
    /\ today' = now
    /\ endDate' = AddDays(now, projectionDays)
    /\ currentSimDate' = now
    /\ currentYear' = GetFullYear(now)
    /\ catStates' = InitialCatStates(categories)
    /\ locals' = NoLocals
    /\ data' = <<>>
    /\ pc' = "loop"
    /\ UNCHANGED <<now, categories, projectionDays, chartData, history>>
    /\ UNCHANGED <<durVars, appVars>>

\* one iteration of the while loop
SimDay ==
    /\ pc = "loop"
    /\ currentSimDate <= endDate
    /\ LET reset == IsNewYear(currentSimDate, currentYear)
           res   == [i \in 1..Len(categories) |->
                        CatDay(categories[i], catStates[i], currentSimDate, reset)]
       IN  /\ currentYear' = IF reset THEN GetFullYear(currentSimDate) ELSE currentYear
           /\ catStates' = [i \in 1..Len(categories) |-> res[i].st]
           /\ locals' = [i \in 1..Len(categories) |-> res[i].loc]
           /\ data' = Append(data,
                  [fullDate |-> currentSimDate,
                   date |-> <<GetMonth(currentSimDate), GetDate(currentSimDate)>>,
                   vals |-> DataPointValues(categories,
                               [i \in 1..Len(categories) |-> res[i].out])])
    /\ currentSimDate' = AddDays(currentSimDate, 1)
    /\ UNCHANGED <<now, categories, projectionDays, pc, today, endDate,
                   chartData, history>>
    /\ UNCHANGED <<durVars, appVars>>

\* the loop ends and the callback returns data
SimReturn ==
    /\ pc = "loop"
    /\ ~(currentSimDate <= endDate)
    /\ chartData' = data
    /\ pc' = "done"
    /\ history' = Append(history,
           [categories |-> categories, today |-> today,
            projectionDays |-> projectionDays, data |-> data])
    /\ UNCHANGED <<now, categories, projectionDays, today, endDate,
                   currentSimDate, currentYear, catStates, locals, data>>
    /\ UNCHANGED <<durVars, appVars>>


\* --------------- projection: what makes chartData stale ------------------

\* computations followed per behaviour
MaxRuns == 2

\* the horizons the model offers in place of the page's 30 / 90 / 180 / 365
ProjectionChoices == {7, MaxProjectionDays}

\* the query delivers a new array with the same records (a refetch that
\* found nothing changed): useMemo's dependency changes
CategoriesRefetched ==
    /\ pc = "done"
    /\ Len(history) < MaxRuns
    /\ categories' = categories
    /\ pc' = "stale"
    /\ UNCHANGED <<now, projectionDays, today, endDate, currentSimDate,
                   currentYear, catStates, locals, data, chartData, history>>
    /\ UNCHANGED <<durVars, appVars>>

\* the horizon select's onChange
SetProjectionDays(n) ==
    /\ pc = "done"
    /\ Len(history) < MaxRuns
    /\ n # projectionDays
    /\ projectionDays' = n
    /\ pc' = "stale"
    /\ UNCHANGED <<now, categories, today, endDate, currentSimDate,
                   currentYear, catStates, locals, data, chartData, history>>
    /\ UNCHANGED <<durVars, appVars>>

\* time passes between two computations
ClockTick ==
    /\ pc = "done"
    /\ Len(history) < MaxRuns
    /\ now = today
    /\ now' = now + 1
    /\ UNCHANGED <<categories, projectionDays, pc, today, endDate,
                   currentSimDate, currentYear, catStates, locals, data,
                   chartData, history>>
    /\ UNCHANGED <<durVars, appVars>>


\* ------------------------- durations: strings ----------------------------
\* A string is a sequence of one-character strings.

DigitChars == <<"0", "1", "2", "3", "4", "5", "6", "7", "8", "9">>

IsDigit(c) == \E d \in 1..10 : DigitChars[d] = c

DigitVal(c) == (CHOOSE d \in 1..10 : DigitChars[d] = c) - 1

IsSpace(c) == c = " "

\* `${n}` of a non-negative integer
RECURSIVE NatToStr(_)
NatToStr(n) ==
    IF n < 10 THEN <<DigitChars[n + 1]>>
    ELSE NatToStr(n \div 10) \o <<DigitChars[(n % 10) + 1]>>

\* String.prototype.toLowerCase on the letters the model uses
LowerChar(c) == IF c = "H" THEN "h" ELSE IF c = "M" THEN "m" ELSE c

\* the text left in the case it was typed in
ToLowerCaseKept(s) == s

ToLowerCase(s) == [i \in 1..Len(s) |-> LowerChar(s[i])]

\* String.prototype.trim
RECURSIVE TrimStart(_)
TrimStart(s) == IF s # <<>> /\ IsSpace(Head(s)) THEN TrimStart(Tail(s)) ELSE s

RECURSIVE TrimEnd(_)
TrimEnd(s) ==
    IF s # <<>> /\ IsSpace(s[Len(s)]) THEN TrimEnd(SubSeq(s, 1, Len(s) - 1)) ELSE s

Trim(s) == TrimEnd(TrimStart(s))

\* String.prototype.includes for one character
Includes(s, c) == \E i \in 1..Len(s) : s[i] = c

\* the index after the run of digits that starts at i (i when there is none)
RECURSIVE DigitRunEnd(_, _)
DigitRunEnd(s, i) ==
    IF i <= Len(s) /\ IsDigit(s[i]) THEN DigitRunEnd(s, i + 1) ELSE i

\* the index after the run of white space that starts at i
RECURSIVE SpaceRunEnd(_, _)
SpaceRunEnd(s, i) ==
    IF i <= Len(s) /\ IsSpace(s[i]) THEN SpaceRunEnd(s, i + 1) ELSE i

\* the number written by the digits s[i..j-1] (0 for no digits)
RECURSIVE NatOf(_, _, _)
NatOf(s, i, j) == IF j <= i THEN 0 ELSE NatOf(s, i, j - 1) * 10 + DigitVal(s[j - 1])

RECURSIVE Pow10(_)
Pow10(n) == IF n = 0 THEN 1 ELSE 10 * Pow10(n - 1)

\* the decimal with integer digits s[i..j-1] and fraction digits s[f..k-1],
\* counted in 1/scale
DecimalValue(s, i, j, f, k, scale) ==
    NatOf(s, i, j) * scale + (NatOf(s, f, k) * scale) \div Pow10(k - f)

\* -------------------------- durations: values ----------------------------
\* What a JavaScript expression of type number | null evaluates to.

JsNull == [kind |-> "null"]

JsNaN == [kind |-> "nan"]

JsNum(v) == [kind |-> "num", v |-> v]

\* Number(s) for a trimmed string of the texts the model types: digits, ".",
\* "+", "-", ":", blanks and letters, with no exponent, radix prefix or
\* "Infinity" among them: an optional sign, then digits with an optional
\* fraction or a fraction alone; the empty string is 0
JsNumber(s, scale) ==
    LET signed == s # <<>> /\ s[1] \in {"+", "-"}
        i      == IF signed THEN 2 ELSE 1
        j      == DigitRunEnd(s, i)
        dot    == j <= Len(s) /\ s[j] = "."
        k      == IF dot THEN DigitRunEnd(s, j + 1) ELSE j
        ok     == k = Len(s) + 1 /\ (j > i \/ (dot /\ k > j + 1))
        mag    == DecimalValue(s, i, j, j + 1, IF dot THEN k ELSE j + 1, scale)
    IN  IF s = <<>> THEN JsNum(0)
        ELSE IF ~ok THEN JsNaN
        ELSE JsNum(IF signed /\ s[1] = "-" THEN 0 - mag ELSE mag)

\* parseFloat(s) for a string Number(s) accepts: the same number, except that
\* the empty string has none
ParseFloat(s, scale) == IF s = <<>> THEN JsNaN ELSE JsNumber(s, scale)

\* String.prototype.split(':'): the pieces between the colons
RECURSIVE SplitColon(_)
SplitColon(s) ==
    IF ~Includes(s, ":") THEN <<s>>
    ELSE LET i == CHOOSE i \in 1..Len(s) :
                     s[i] = ":" /\ \A j \in 1..(i - 1) : s[j] # ":"
         IN  <<SubSeq(s, 1, i - 1)>> \o SplitColon(SubSeq(s, i + 1, Len(s)))

\* Number applied to a piece of the split: white space around it is ignored
PieceNumber(piece, scale) == JsNumber(Trim(piece), scale)

\* whether /(\d+(\.\d+)?)\s*<letter>/ matches starting at index i, and the
\* value of its first group counted in 1/scale
MatchAt(s, i, letter, scale) ==
    LET j    == DigitRunEnd(s, i)
        frac == j + 1 <= Len(s) /\ s[j] = "." /\ IsDigit(s[j + 1])
        k    == IF frac THEN DigitRunEnd(s, j + 1) ELSE j
        w    == SpaceRunEnd(s, k)
    IN  [ok |-> j > i /\ w <= Len(s) /\ s[w] = letter,
         v  |-> DecimalValue(s, i, j, j + 1, IF frac THEN k ELSE j + 1, scale)]

\* String.prototype.match of that pattern: the leftmost match, or none
RegexMatch(s, letter, scale) ==
    LET starts == {i \in 1..Len(s) : MatchAt(s, i, letter, scale).ok}
    IN  IF starts = {} THEN JsNull
        ELSE LET first == CHOOSE i \in starts : \A j \in starts : i <= j
             IN  JsNum(MatchAt(s, first, letter, scale).v)

\* ------------------------ durations: format.ts ---------------------------

\* formatHours(decimalHours)
formatHours(decimalHours) ==
    LET isNegative    == decimalHours < 0
        absoluteHours == Abs(decimalHours)
        hours         == absoluteHours \div HourUnits
        \* Math.round((absoluteHours - hours) * 60)
        minutes       == (2 * (absoluteHours - hours * HourUnits) * 60 + HourUnits)
                             \div (2 * HourUnits)
        hPart         == IF hours > 0 THEN NatToStr(hours) \o <<"h">> ELSE <<>>
        mPart         == IF minutes > 0 THEN <<" ">> \o NatToStr(minutes) \o <<"m">>
                         ELSE <<>>
    IN  IF hours = 0 /\ minutes = 0 THEN <<"0", "h">>
        ELSE (IF isNegative THEN <<"-">> ELSE <<>>) \o Trim(hPart \o mPart)

\* parseDuration(input); hours are counted in 1/HourUnits
parseDuration(input) ==
    LET cleanInput   == Trim(ToLowerCase(input))
        asNumber     == JsNumber(cleanInput, HourUnits)
        parts        == SplitColon(cleanInput)
        h            == PieceNumber(parts[1], HourUnits)
        \* minutes counted in 1/HourUnits of a minute, so that m / 60 is exact
        m            == PieceNumber(parts[2], HourUnits)
        hoursMatch   == RegexMatch(cleanInput, "h", HourUnits)
        minutesMatch == RegexMatch(cleanInput, "m", HourUnits)
        totalHours   == (IF hoursMatch # JsNull THEN hoursMatch.v ELSE 0)
                        + (IF minutesMatch # JsNull THEN minutesMatch.v \div 60 ELSE 0)
    IN  IF input = <<>> THEN JsNull
        ELSE IF asNumber # JsNaN THEN ParseFloat(cleanInput, HourUnits)
        ELSE IF Includes(cleanInput, ":") /\ h # JsNaN /\ m # JsNaN
             THEN JsNum(h.v + m.v \div 60)
        ELSE IF hoursMatch = JsNull /\ minutesMatch = JsNull THEN JsNull
        ELSE JsNum(totalHours)


\* ------------------------ durations: the calls ---------------------------

\* a stored amount is shown in a duration field (handleEdit's
\* setNewCatRate(formatHours(cat.accrual_rate)))
FormatHoursCall ==
    /\ durPc = "value"
    /\ durText' = formatHours(durHours)
    /\ durPc' = "text"
    /\ UNCHANGED <<durHours, durResult>>
    /\ UNCHANGED <<simVars, appVars>>

\* the field's text is parsed on submit (handleCreateSubmit's
\* parseDuration(newCatRate))
ParseDurationCall ==
    /\ durPc = "text"
    /\ durResult' = parseDuration(durText)
    /\ durPc' = "parsed"
    /\ UNCHANGED <<durHours, durText>>
    /\ UNCHANGED <<simVars, appVars>>

\* --------------------------- LogModal -----------------------------------

\* finalAmount with the typed sign kept
FinalAmountSigned(usage, duration) ==
    IF duration = JsNaN THEN JsNaN
    ELSE JsNum(IF usage THEN 0 - duration.v ELSE duration.v)

\* isUsage ? -Math.abs(duration) : Math.abs(duration)
FinalAmount(usage, duration) ==
    IF duration = JsNaN THEN JsNaN
    ELSE JsNum(IF usage THEN 0 - Abs(duration.v) ELSE Abs(duration.v))

\* everything but the LogModal
exceptLog == <<simVars, durVars, cacheVars, forecastVars, presetVars,
    formVars, calVars, genVars>>

\* the modal is opened: the effect on isOpen resets the fields
LogOpen ==
    /\ logPc = "closed"
    /\ amount' = <<>>
    /\ isUsage' = TRUE
    /\ logPc' = "form"
    /\ UNCHANGED <<logPosted, logAlert>>
    /\ UNCHANGED exceptLog

\* the duration field's onChange
SetAmount(text) ==
    /\ logPc \in {"form", "posting"}
    /\ amount' = text
    /\ UNCHANGED <<isUsage, logPc, logPosted, logAlert>>
    /\ UNCHANGED exceptLog

\* the Usage and Adjustment buttons
SetIsUsage(usage) ==
    /\ logPc \in {"form", "posting"}
    /\ isUsage' = usage
    /\ UNCHANGED <<amount, logPc, logPosted, logAlert>>
    /\ UNCHANGED exceptLog

\* the form's onSubmit; the duration field is required, so the browser only
\* submits a non-empty text
handleLogSubmit ==
    /\ logPc \in {"form", "posting"}
    /\ amount # <<>>
    /\ LET duration == parseDuration(amount)
       IN  IF duration = JsNull
           THEN /\ logAlert' = "invalid"
                /\ UNCHANGED <<logPc, logPosted>>
           ELSE /\ logPosted' = FinalAmount(isUsage, duration)
                /\ logPc' = "posting"
                /\ UNCHANGED logAlert
    /\ UNCHANGED <<amount, isUsage>>
    /\ UNCHANGED exceptLog

\* the post resolves: onSuccess(); onClose()
LogPostSucceeds ==
    /\ logPc = "posting"
    /\ logPc' = "closed"
    /\ UNCHANGED <<amount, isUsage, logPosted, logAlert>>
    /\ UNCHANGED exceptLog

\* the post rejects: alert('Failed to log PTO'), the modal stays open
LogPostFails ==
    /\ logPc = "posting"
    /\ logPc' = "form"
    /\ logAlert' = "failed"
    /\ UNCHANGED <<amount, isUsage, logPosted>>
    /\ UNCHANGED exceptLog

\* ------------------------ the query client -------------------------------

\* ledger mutations applied to the server in one behaviour
MaxMutations == 2

\* the query keys of usePTO.ts and useShifts.ts; the forecast key is that of
\* one target date
QueryKeys == {"ptoCategories", "ptoLogs", "shifts", "ptoForecast"}

\* the mutations that change the ledger
LedgerMutations ==
    {"createLog", "deleteLog", "createShift", "createBatchShifts", "deleteShift"}

\* the keys a mutation's onSuccess invalidates
OnSuccessKeys(mutation) ==
    IF mutation \in {"createLog", "deleteLog"}
    THEN {"ptoLogs", "ptoCategories"}
    ELSE {"shifts", "ptoLogs", "ptoCategories"}

\* everything but the query client
exceptCache == <<simVars, durVars, logVars, forecastVars, presetVars,
    formVars, calVars, genVars>>

\* queryClient.invalidateQueries({ queryKey }) for each of the keys: the
\* cached queries with those keys are marked stale
InvalidateQueries(cache, keys) ==
    [k \in QueryKeys |->
        IF k \in keys /\ cache[k].status # "absent"
        THEN [cache[k] EXCEPT !.status = "stale"]
        ELSE cache[k]]

\* a query is fetched: useQuery is mounted with no data or with stale data,
\* or an invalidated query that is mounted refetches
QueryFetch(k) ==
    /\ queryCache[k].status \in {"absent", "stale"}
    /\ queryCache' = [queryCache EXCEPT ![k] = [status |-> "fresh", version |-> ledgerVersion]]
    /\ UNCHANGED ledgerVersion
    /\ UNCHANGED exceptCache

\* the Calculate Projection button of the forecast card: refetch()
RefetchForecast ==
    /\ queryCache' = [queryCache EXCEPT
                         !["ptoForecast"] = [status |-> "fresh", version |-> ledgerVersion]]
    /\ queryCache' # queryCache
    /\ UNCHANGED ledgerVersion
    /\ UNCHANGED exceptCache

\* staleTime passes: what was fresh is stale
StaleTimePasses ==
    /\ \E k \in QueryKeys : queryCache[k].status = "fresh"
    /\ queryCache' = InvalidateQueries(queryCache, QueryKeys)
    /\ UNCHANGED ledgerVersion
    /\ UNCHANGED exceptCache

\* a ledger mutation succeeds: the server has applied it and onSuccess
\* invalidates the keys it names
MutationSucceeds(mutation) ==
    /\ ledgerVersion < MaxMutations
    /\ ledgerVersion' = ledgerVersion + 1
    /\ queryCache' = InvalidateQueries(queryCache, OnSuccessKeys(mutation))
    /\ UNCHANGED exceptCache

\* --------------------------- Forecast -----------------------------------

\* forecast requests made in one behaviour
MaxRequests == 2

\* everything but the forecast card
exceptForecast == <<simVars, durVars, logVars, cacheVars, presetVars,
    formVars, calVars, genVars>>

\* the date field's onChange; clearing the field gives the empty string
SetTargetDate(d) ==
    /\ targetDate' = d
    /\ targetDate' # targetDate
    /\ UNCHANGED <<loading, projections, forecastRequests>>
    /\ UNCHANGED exceptForecast

\* the Calculate Projection button, disabled while loading or without a date
handleForecast ==
    /\ ~loading
    /\ targetDate # Null
    /\ Len(forecastRequests) < MaxRequests
    /\ loading' = TRUE
    /\ forecastRequests' = Append(forecastRequests, targetDate[1])
    /\ UNCHANGED <<targetDate, projections>>
    /\ UNCHANGED exceptForecast

\* the request resolves: setProjections(res.data), then setLoading(false)
ForecastResolves ==
    /\ loading
    /\ projections' = Some(forecastRequests[Len(forecastRequests)])
    /\ loading' = FALSE
    /\ UNCHANGED <<targetDate, forecastRequests>>
    /\ UNCHANGED exceptForecast

\* the request rejects: console.error, then setLoading(false)
ForecastRejects ==
    /\ loading
    /\ loading' = FALSE
    /\ UNCHANGED <<targetDate, projections, forecastRequests>>
    /\ UNCHANGED exceptForecast

\* ----------------------- AmazonPresetSection -----------------------------

\* everything but the preset section
exceptPreset == <<simVars, durVars, logVars, cacheVars, forecastVars,
    formVars, calVars, genVars>>

\* parseFloat(text) || 0 of a number field's text, in 1/HourUnits
FieldNumber(text) ==
    LET n == ParseFloat(text, HourUnits)
    IN  IF n = JsNaN THEN 0 ELSE n.v

\* the section's own parseDuration of a balance field left empty: undefined
EmptyBalance == Null

\* the payload handleLoadPresets hands to applyPreset; the three balance
\* fields are left empty
PresetPayload(t, sl, spw) ==
    [tenure_years |-> FieldNumber(t), shift_length |-> FieldNumber(sl),
     shifts_per_week |-> FieldNumber(spw),
     current_upt |-> EmptyBalance, current_flex |-> EmptyBalance,
     current_std |-> EmptyBalance]

\* handleLoadPresets: the confirm prompt, then applyPreset
handleLoadPresets(confirmed) ==
    /\ presetPc = "form"
    /\ IF confirmed
       THEN /\ presetPayload' = Some(PresetPayload(tenure, shiftLength, shiftsPerWeek))
            /\ presetPc' = "pending"
       ELSE UNCHANGED <<presetPayload, presetPc>>
    /\ UNCHANGED <<tenure, shiftLength, shiftsPerWeek, presetCategories>>
    /\ UNCHANGED exceptPreset

\* a starting balance: the value provided, else zero
StartingBalance(provided) == IF provided = Null THEN 0 ELSE provided[1]

\* the Flex preset with an accrual that follows the shifts worked per week
FlexPresetPerShift(params) ==
    [name |-> "Flex PTO", accrual_frequency |-> WEEKLY,
     accrual_rate |-> ((Hours(185) \div 100) * params.shifts_per_week) \div Hours(4),
     max_balance |-> Some(Hours(48)),
     current_balance |-> StartingBalance(params.current_flex)]

\* the generator's Flex category: 48h cap, 1.85h a week
FlexPreset(params) ==
    [name |-> "Flex PTO", accrual_frequency |-> WEEKLY,
     accrual_rate |-> Hours(185) \div 100,
     max_balance |-> Some(Hours(48)),
     current_balance |-> StartingBalance(params.current_flex)]

\* the generator's UPT category: 80h cap, accrued by shifts worked and not
\* periodically
UptPreset(params) ==
    [name |-> "UPT", accrual_frequency |-> "shift", accrual_rate |-> 0,
     max_balance |-> Some(Hours(80)),
     current_balance |-> StartingBalance(params.current_upt)]

\* the rates the tenure table of the Standard category may hold
StandardRateChoices == {Hours(1), Hours(2), Hours(3)}

\* the generator's Standard category, at a rate looked up by tenure
StandardPreset(params, rate) ==
    [name |-> "Standard PTO", accrual_frequency |-> WEEKLY,
     accrual_rate |-> rate, max_balance |-> Null,
     current_balance |-> StartingBalance(params.current_std)]

\* the server answers with the generated categories; onSuccess alerts and
\* reloads the page
PresetSucceeds ==
    /\ presetPc = "pending"
    /\ \E rate \in StandardRateChoices :
           presetCategories' = << UptPreset(presetPayload[1]),
                                  FlexPreset(presetPayload[1]),
                                  StandardPreset(presetPayload[1], rate) >>
    /\ presetPc' = "loaded"
    /\ UNCHANGED <<tenure, shiftLength, shiftsPerWeek, presetPayload>>
    /\ UNCHANGED exceptPreset

\* the request fails: onError alerts
PresetFails ==
    /\ presetPc = "pending"
    /\ presetPc' = "failed"
    /\ UNCHANGED <<tenure, shiftLength, shiftsPerWeek, presetPayload,
                   presetCategories>>
    /\ UNCHANGED exceptPreset

\* --------------------------- PTOSection ----------------------------------

\* category requests without a response at one time
MaxInFlight == 1

\* the ids the server gives to categories; that of a deleted category is
\* free again, except the one of the category listed when the page opens
CategoryIds == {1, 2}

FreeIds == CategoryIds \ ({cat.id : cat \in serverCategories} \cup {1})

\* everything but PTOSection
exceptForm == <<simVars, durVars, logVars, cacheVars, forecastVars, presetVars,
    calVars, genVars>>

\* the Accrual Rate field's onChange
SetNewCatRate(text) ==
    /\ formOpen
    /\ newCatRate' = text
    /\ newCatRate' # newCatRate
    /\ UNCHANGED <<serverCategories, editingId, newCatInitial, newCatMax,
                   catInFlight, catAlert, catPrompts>>
    /\ UNCHANGED <<formOpen, exceptForm>>

\* the Starting Balance field's onChange
SetNewCatInitial(text) ==
    /\ formOpen
    /\ newCatInitial' = text
    /\ newCatInitial' # newCatInitial
    /\ UNCHANGED <<serverCategories, editingId, newCatRate, newCatMax,
                   catInFlight, catAlert, catPrompts>>
    /\ UNCHANGED <<formOpen, exceptForm>>

\* the Max Balance field's onChange
SetNewCatMax(text) ==
    /\ formOpen
    /\ newCatMax' = text
    /\ newCatMax' # newCatMax
    /\ UNCHANGED <<serverCategories, editingId, newCatRate, newCatInitial,
                   catInFlight, catAlert, catPrompts>>
    /\ UNCHANGED <<formOpen, exceptForm>>

\* handleCreateSubmit's rate, initial and max as the payload carries them
CategoryPayload(rateText, initialText, maxText) ==
    [accrual_rate     |-> parseDuration(rateText),
     starting_balance |-> parseDuration(initialText),
     max_balance      |-> IF maxText # <<>> THEN parseDuration(maxText) ELSE JsNull]

\* rate === null || initial === null || (newCatMax && max === null)
InvalidTimeFormats(rateText, initialText, maxText) ==
    LET payload == CategoryPayload(rateText, initialText, maxText)
    IN  \/ payload.accrual_rate = JsNull
        \/ payload.starting_balance = JsNull
        \/ (maxText # <<>> /\ payload.max_balance = JsNull)

\* updateCategory({ id: editingId, payload }, options) when editing, else
\* createCategory(payload, options)
CategoryRequest ==
    [kind      |-> IF editingId # Null THEN "update" ELSE "create",
     id        |-> editingId,
     payload   |-> CategoryPayload(newCatRate, newCatInitial, newCatMax),
     editingId |-> editingId]

\* handleCreateSubmit that alerts and goes on to issue the request
handleCreateSubmitUnchecked ==
    /\ formOpen
    /\ newCatRate # <<>>
    /\ Len(catInFlight) < MaxInFlight
    /\ catInFlight' = Append(catInFlight, CategoryRequest)
    /\ catAlert' = IF InvalidTimeFormats(newCatRate, newCatInitial, newCatMax)
                   THEN "invalid" ELSE catAlert
    /\ UNCHANGED <<serverCategories, editingId, newCatRate, newCatInitial,
                   newCatMax, catPrompts>>
    /\ UNCHANGED <<formOpen, exceptForm>>

\* the form's onSubmit; the browser does not submit while the required rate
\* field is empty
handleCreateSubmit ==
    /\ formOpen
    /\ newCatRate # <<>>
    /\ IF InvalidTimeFormats(newCatRate, newCatInitial, newCatMax)
       THEN /\ catAlert' = "invalid"
            /\ UNCHANGED catInFlight
       ELSE /\ Len(catInFlight) < MaxInFlight
            /\ catInFlight' = Append(catInFlight, CategoryRequest)
            /\ UNCHANGED catAlert
    /\ UNCHANGED <<serverCategories, editingId, newCatRate, newCatInitial,
                   newCatMax, catPrompts>>
    /\ UNCHANGED <<formOpen, exceptForm>>

\* resetForm as the Cancel button shown while editing calls it
resetForm ==
    /\ formOpen
    /\ editingId # Null
    /\ editingId' = Null
    /\ newCatRate' = <<>>
    /\ newCatInitial' = <<"0">>
    /\ newCatMax' = <<>>
    /\ UNCHANGED <<serverCategories, catInFlight, catAlert, catPrompts>>
    /\ UNCHANGED <<formOpen, exceptForm>>

\* the Edit button of a listed category
handleEdit(cat) ==
    /\ formOpen
    /\ cat \in serverCategories
    /\ editingId' = Some(cat.id)
    /\ newCatRate' = formatHours(cat.accrual_rate)
    /\ newCatInitial' = formatHours(cat.starting_balance)
    /\ newCatMax' = IF Truthy(cat.max_balance)
                    THEN formatHours(cat.max_balance[1]) ELSE <<>>
    /\ UNCHANGED <<serverCategories, catInFlight, catAlert, catPrompts>>
    /\ UNCHANGED <<formOpen, exceptForm>>

\* deleteCategory(id, { onSuccess, onError }); onSuccess closes over the
\* editingId of the render the click happened in
DeleteCategoryRequest(id) ==
    [kind |-> "delete", id |-> Some(id), payload |-> Null, editingId |-> editingId]

\* handleDelete with the request issued whatever the answer to the prompt
handleDeleteUnasked(id, confirmed) ==
    /\ formOpen
    /\ \E cat \in serverCategories : cat.id = id
    /\ Len(catInFlight) < MaxInFlight
    /\ catPrompts' = << <<"delete this category?", confirmed>> >>
    /\ catInFlight' = Append(catInFlight, DeleteCategoryRequest(id))
    /\ UNCHANGED <<serverCategories, editingId, newCatRate, newCatInitial,
                   newCatMax, catAlert>>
    /\ UNCHANGED <<formOpen, exceptForm>>

\* the Delete button of a listed category
handleDelete(id, confirmed) ==
    /\ formOpen
    /\ \E cat \in serverCategories : cat.id = id
    /\ catPrompts' = << <<"delete this category?", confirmed>> >>
    /\ IF ~confirmed
       THEN UNCHANGED catInFlight
       ELSE /\ Len(catInFlight) < MaxInFlight
            /\ catInFlight' = Append(catInFlight, DeleteCategoryRequest(id))
    /\ UNCHANGED <<serverCategories, editingId, newCatRate, newCatInitial,
                   newCatMax, catAlert>>
    /\ UNCHANGED <<formOpen, exceptForm>>

\* the server can apply the request: the category of an update or a delete
\* exists, there is an id for a new one, and the payload's numbers are
\* numbers (NaN is sent as null)
CanApply(request) ==
    /\ request.kind \in {"update", "delete"}
          => \E cat \in serverCategories : cat.id = request.id[1]
    /\ request.kind = "create" => FreeIds # {}
    /\ request.kind \in {"create", "update"}
          => /\ request.payload.accrual_rate.kind = "num"
             /\ request.payload.starting_balance.kind = "num"
             /\ request.payload.max_balance.kind \in {"null", "num"}

\* the category a payload describes
StoredCategory(id, payload) ==
    [id               |-> id,
     accrual_rate     |-> payload.accrual_rate.v,
     starting_balance |-> payload.starting_balance.v,
     max_balance      |-> IF payload.max_balance = JsNull THEN Null
                          ELSE Some(payload.max_balance.v)]

\* the categories after the server has applied the request; a new category
\* gets the lowest free id
Applied(request) ==
    LET others == IF request.kind = "create" THEN serverCategories
                  ELSE {cat \in serverCategories : cat.id # request.id[1]}
        newId  == CHOOSE i \in FreeIds : \A j \in FreeIds : i <= j
    IN  IF request.kind = "delete" THEN others
        ELSE IF request.kind = "update"
             THEN others \cup {StoredCategory(request.id[1], request.payload)}
             ELSE others \cup {StoredCategory(newId, request.payload)}

\* catInFlight without its n-th request
WithoutRequest(n) ==
    [k \in 1..(Len(catInFlight) - 1) |->
        IF k < n THEN catInFlight[k] ELSE catInFlight[k + 1]]

\* a request succeeds: the server applies it, then the onSuccess given to
\* mutate runs: alert and resetForm() after a create or an update,
\* `if (editingId === id) resetForm()` after a delete, with the editingId
\* the callback closed over
CategoryRequestSucceeds(n) ==
    /\ formOpen
    /\ n \in 1..Len(catInFlight)
    /\ LET request == catInFlight[n]
           reset   == IF request.kind = "delete"
                      THEN request.editingId = request.id ELSE TRUE
       IN  /\ CanApply(request)
           /\ serverCategories' = Applied(request)
           /\ catAlert' = IF request.kind = "delete" THEN catAlert ELSE "saved"
           /\ editingId' = IF reset THEN Null ELSE editingId
           /\ newCatRate' = IF reset THEN <<>> ELSE newCatRate
           /\ newCatInitial' = IF reset THEN <<"0">> ELSE newCatInitial
           /\ newCatMax' = IF reset THEN <<>> ELSE newCatMax
    /\ catInFlight' = WithoutRequest(n)
    /\ UNCHANGED catPrompts
    /\ UNCHANGED <<formOpen, exceptForm>>

\* a request fails: onError alerts
CategoryRequestFails(n) ==
    /\ formOpen
    /\ n \in 1..Len(catInFlight)
    /\ catInFlight' = WithoutRequest(n)
    /\ catAlert' = "failed"
    /\ UNCHANGED <<serverCategories, editingId, newCatRate, newCatInitial,
                   newCatMax, catPrompts>>
    /\ UNCHANGED <<formOpen, exceptForm>>

\* ----------------------------- Calendar ----------------------------------

\* everything but Calendar
exceptCal == <<simVars, durVars, logVars, cacheVars, forecastVars, presetVars,
    formVars, genVars>>

LogPrompt == "Are you sure you want to delete this log?"

SeriesPrompt == "This is a recurring shift. Click OK to delete the ENTIRE SERIES."

SinglePrompt == "Delete just this single instance?"

ShiftPrompt == "Are you sure you want to delete this shift?"

\* the delete button of a log
handleDeleteLog(logId, confirmed) ==
    /\ logId \in calLogs
    /\ calPrompts' = << <<LogPrompt, confirmed>> >>
    /\ IF ~confirmed
       THEN UNCHANGED calInFlight
       ELSE /\ Len(calInFlight) < MaxInFlight
            /\ calInFlight' = Append(calInFlight, [kind |-> "deleteLog", id |-> logId])
    /\ UNCHANGED <<calShifts, calLogs>>
    /\ UNCHANGED exceptCal

\* the delete button of a shift; first and second are the answers the user
\* has for the first and the second prompt shown
handleDeleteShift(shiftId, first, second) ==
    /\ \E shift \in calShifts :
          /\ shift.id = shiftId
          /\ IF shift.series_id # Null
             THEN IF first
                  THEN /\ calPrompts' = << <<SeriesPrompt, TRUE>> >>
                       /\ Len(calInFlight) < MaxInFlight
                       /\ calInFlight' = Append(calInFlight,
                              [kind |-> "deleteShiftSeries", id |-> shift.series_id[1]])
                  ELSE /\ calPrompts' = << <<SeriesPrompt, FALSE>>,
                                           <<SinglePrompt, second>> >>
                       /\ IF second
                          THEN /\ Len(calInFlight) < MaxInFlight
                               /\ calInFlight' = Append(calInFlight,
                                      [kind |-> "deleteShift", id |-> shiftId])
                          ELSE UNCHANGED calInFlight
             ELSE /\ calPrompts' = << <<ShiftPrompt, first>> >>
                  /\ IF first
                     THEN /\ Len(calInFlight) < MaxInFlight
                          /\ calInFlight' = Append(calInFlight,
                                 [kind |-> "deleteShift", id |-> shiftId])
                     ELSE UNCHANGED calInFlight
    /\ UNCHANGED <<calShifts, calLogs>>
    /\ UNCHANGED exceptCal

\* calInFlight without its n-th request
WithoutDelete(n) ==
    [k \in 1..(Len(calInFlight) - 1) |->
        IF k < n THEN calInFlight[k] ELSE calInFlight[k + 1]]

\* a delete request succeeds: the server has removed the log, the shift or
\* every shift of the series, and the invalidated lists are fetched again
CalDeleteSucceeds(n) ==
    /\ n \in 1..Len(calInFlight)
    /\ LET r == calInFlight[n]
       IN  /\ calLogs' = IF r.kind = "deleteLog" THEN calLogs \ {r.id} ELSE calLogs
           /\ calShifts' =
                 IF r.kind = "deleteShift"
                 THEN {shift \in calShifts : shift.id # r.id}
                 ELSE IF r.kind = "deleteShiftSeries"
                 THEN {shift \in calShifts : shift.series_id # Some(r.id)}
                 ELSE calShifts
    /\ calInFlight' = WithoutDelete(n)
    /\ UNCHANGED calPrompts
    /\ UNCHANGED exceptCal

\* a delete request fails: the lists stay as they are (a failed log delete
\* alerts)
CalDeleteFails(n) ==
    /\ n \in 1..Len(calInFlight)
    /\ calInFlight' = WithoutDelete(n)
    /\ UNCHANGED <<calShifts, calLogs, calPrompts>>
    /\ UNCHANGED exceptCal

\* ----------------------- generateRecurringShifts -------------------------

\* instants of the shift generator are counted in minutes; a local instant
\* is the local day number times MinutesPerDay plus the minute of that day
MinutesPerDay == 24 * 60

\* everything but the shift generator
exceptGen == <<simVars, durVars, logVars, cacheVars, forecastVars, presetVars,
    formVars, calVars>>

\* the local calendar day of a local instant
LocalDay(instant) == instant \div MinutesPerDay

\* Date.prototype.getDay of a local instant
LocalWeekday(instant) == (LocalDay(instant) + 4) % 7

\* Date.prototype.toISOString: the instant in UTC, of a Date whose local
\* time is offset minutes ahead of UTC
ToISOString(instant, offset) == instant - offset

\* new Date(isoString) read back in local time
FromISOString(utc, offset) == utc + offset

\* d.toISOString().split('T')[0]: the day number of the UTC date
DateStr(instant, offset) == ToISOString(instant, offset) \div MinutesPerDay

\* new Date(`${dateStr}T${time}`): a date-time without a zone is local time
LocalDateTime(dateStr, time) == dateStr * MinutesPerDay + time

\* end.setFullYear(end.getFullYear() + durationYears): same month, day and
\* time of day, a Feb 29 that does not exist becoming Mar 1
SetFullYearPlus(instant, durationYears) ==
    LET civil == CivilFromDays(LocalDay(instant))
    IN  DaysFromCivil(civil.y + durationYears, civil.m, civil.d) * MinutesPerDay
            + (instant % MinutesPerDay)

\* eTime left on the day of sTime
OvernightEndKept(sTime, eTime) == eTime

\* Handle overnight shifts: eTime.setDate(eTime.getDate() + 1) if eTime < sTime
OvernightEnd(sTime, eTime) ==
    IF eTime < sTime THEN eTime + MinutesPerDay ELSE eTime

\* the shift pushed for the loop's day d
ShiftOn(d, args) ==
    LET dateStr == DateStr(d, args.offset)
        sTime   == LocalDateTime(dateStr, args.startTime)
        eTime   == OvernightEnd(sTime, LocalDateTime(dateStr, args.endTime))
    IN  [start_time |-> ToISOString(sTime, args.offset),
         end_time   |-> ToISOString(eTime, args.offset)]

\* the call: everything before the for loop, and the loop's initialiser
GenStart ==
    /\ genPc = "called"
    /\ genD' = genArgs.startDate
    /\ genEnd' = SetFullYearPlus(genArgs.startDate, genArgs.durationYears)
    /\ genShifts' = <<>>
    /\ genPc' = "loop"
    /\ UNCHANGED genArgs
    /\ UNCHANGED exceptGen

\* one iteration of the for loop with its d.setDate(d.getDate() + 1)
GenDay ==
    /\ genPc = "loop"
    /\ genD <= genEnd
    /\ genShifts' = IF LocalWeekday(genD) \in genArgs.selectedDays
                    THEN Append(genShifts, ShiftOn(genD, genArgs))
                    ELSE genShifts
    /\ genD' = genD + MinutesPerDay
    /\ UNCHANGED <<genArgs, genEnd, genPc>>
    /\ UNCHANGED exceptGen

\* the loop ends: return shifts
GenReturn ==
    /\ genPc = "loop"
    /\ ~(genD <= genEnd)
    /\ genPc' = "returned"
    /\ UNCHANGED <<genArgs, genD, genEnd, genShifts>>
    /\ UNCHANGED exceptGen

\* ---------------------------- inputs ------------------------------------

\* the instants the projection is opened at: before a year's end and on
\* Monday 2024-01-01, at each time of day
NowChoices ==
    {DateAt(2023, 12, 20, tod) : tod \in 0..(TicksPerDay - 1)}
        \cup {DateAt(2024, 1, 1, tod) : tod \in 0..(TicksPerDay - 1)}

\* start dates around the opening instant: in the past and in the future.
\* PTOSection stores the chosen day's UTC midnight, which local time shows at
\* a time of day that depends on the time zone
StartChoices(t) ==
    {AddDays(DayOf(t) * TicksPerDay, d) + tod :
        d \in {-10, 5}, tod \in 0..(TicksPerDay - 1)}

\* yearly cap together with the year-to-date total the server reports
CapChoices ==
    { <<Null, Null>>, <<Some(0), Null>>, <<Some(Hours(15)), Null>>,
      <<Some(Hours(15)), Some(Hours(12))>> }

\* 80h 40m is not a whole number of hundredths of an hour
MaxBalanceChoices == {Null, Some(0), Some(Hours(80)), Some(Hours(80) + 4000)}

AllCategories(t) ==
    { [id |-> 1, name |-> "PTO",
       accrual_rate |-> rate, accrual_frequency |-> freq,
       current_balance |-> bal, start_date |-> start,
       max_balance |-> mx, yearly_accrual_cap |-> cap[1],
       annual_grant_amount |-> grant, accrued_ytd |-> cap[2]] :
         rate \in {Hours(2), Hours(5), Hours(10)},
         freq \in AccrualFrequencies,
         bal \in {Hours(78)},
         start \in StartChoices(t),
         mx \in MaxBalanceChoices,
         cap \in CapChoices,
         grant \in {Null, Some(Hours(20))} }

\* the weekly category of the documented example: 2h every Sunday, started on
\* the opening day, no cap, no grant
ExampleCategories(t) ==
    { [id |-> 1, name |-> "PTO",
       accrual_rate |-> Hours(2), accrual_frequency |-> WEEKLY,
       current_balance |-> Hours(78), start_date |-> t,
       max_balance |-> Null, yearly_accrual_cap |-> Null,
       annual_grant_amount |-> Null, accrued_ytd |-> Null] }

\* categories the server reports overdrawn: 10 hours below zero, as after a
\* usage entry of 20 hours against a balance of 10
NegativeCategories(t) ==
    { [id |-> 1, name |-> "PTO",
       accrual_rate |-> rate, accrual_frequency |-> freq,
       current_balance |-> Hours(-10),
       start_date |-> AddDays(DayOf(t) * TicksPerDay, -10),
       max_balance |-> mx, yearly_accrual_cap |-> Null,
       annual_grant_amount |-> grant, accrued_ytd |-> Null] :
         rate \in {Hours(2), Hours(10)},
         freq \in AccrualFrequencies,
         mx \in {Null, Some(0), Some(Hours(80))},
         grant \in {Null, Some(Hours(20))} }

\* the time of day, of the opening instant and of start_date, is only read
\* for biweekly categories: the others are opened and started at midnight
CategoryChoices(t) ==
    { c \in AllCategories(t) \cup ExampleCategories(t) \cup NegativeCategories(t) :
        \/ c.accrual_frequency = BIWEEKLY
        \/ (t % TicksPerDay = 0 /\ c.start_date % TicksPerDay = 0) }

SimIdle ==
    /\ today = 0 /\ endDate = 0 /\ currentSimDate = 0 /\ currentYear = 0
    /\ catStates = <<>> /\ locals = NoLocals /\ data = <<>> /\ chartData = <<>>
    /\ history = <<>>

DurOff ==
    /\ durHours = 0 /\ durText = <<>> /\ durResult = JsNull /\ durPc = "off"

LogOff ==
    /\ amount = <<>> /\ isUsage = TRUE /\ logPc = "off"
    /\ logPosted = JsNull /\ logAlert = "none"

CacheOff ==
    /\ queryCache = [k \in QueryKeys |-> [status |-> "absent", version |-> 0]]
    /\ ledgerVersion = 0

ForecastOff ==
    /\ targetDate = Null /\ loading = FALSE /\ projections = Null
    /\ forecastRequests = <<>>

PresetOff ==
    /\ tenure = <<>> /\ shiftLength = <<>> /\ shiftsPerWeek = <<>>
    /\ presetPayload = Null /\ presetCategories = <<>> /\ presetPc = "off"

FormOff ==
    /\ formOpen = FALSE
    /\ serverCategories = {} /\ editingId = Null
    /\ newCatRate = <<>> /\ newCatInitial = <<"0">> /\ newCatMax = <<>>
    /\ catInFlight = <<>> /\ catAlert = "none"
    /\ catPrompts = <<>>

CalOff ==
    /\ calShifts = {} /\ calLogs = {} /\ calPrompts = <<>>
    /\ calInFlight = <<>>

GenOff ==
    /\ genArgs = Null /\ genD = 0 /\ genEnd = 0 /\ genShifts = <<>>
    /\ genPc = "off"

PagesOff == FormOff /\ CalOff /\ GenOff

AppOff == LogOff /\ CacheOff /\ ForecastOff /\ PresetOff /\ PagesOff

\* ---------------- the projection of one category -------------------------

Init ==
    /\ now \in NowChoices
    /\ \/ categories = <<>>
       \/ \E c \in CategoryChoices(now) : categories = <<c>>
    /\ projectionDays = MaxProjectionDays
    /\ pc = "stale"
    /\ SimIdle
    /\ AppOff
    /\ DurOff

Next == SimEmpty \/ SimStart \/ SimDay \/ SimReturn

Spec == Init /\ [][Next]_vars


\* ------------- the projection recomputed after a change ------------------

\* categories with every cap and the grant configured, one per frequency
RerunCategories(t) ==
    { c \in CategoryChoices(t) :
        /\ c.accrual_rate = Hours(10)
        /\ c.max_balance = Some(Hours(80))
        /\ c.yearly_accrual_cap = Some(Hours(15))
        /\ c.annual_grant_amount = Some(Hours(20)) }

InitRerun ==
    /\ now \in NowChoices
    /\ \/ categories = <<>>
       \/ \E c \in RerunCategories(now) : categories = <<c>>
    /\ projectionDays \in ProjectionChoices
    /\ pc = "stale"
    /\ SimIdle
    /\ AppOff
    /\ DurOff

NextRerun ==
    \/ SimEmpty
    \/ SimStart
    \/ SimDay
    \/ SimReturn
    \/ CategoriesRefetched
    \/ \E n \in ProjectionChoices : SetProjectionDays(n)
    \/ ClockTick

SpecRerun == InitRerun /\ [][NextRerun]_vars

\* ---------------- a stored amount shown and read back --------------------

\* whole hours of the amounts tried
MaxHours == 2

\* fractions of an hour, in 1/HourUnits: none, a hair, around half a minute,
\* a minute, 5.4 minutes, half an hour, around 59.5 minutes, just under an hour
FractionChoices == {0, 1, 49, 50, 51, 100, 540, 3000, 5949, 5950, 5999}

AmountChoices ==
    { sign * (h * HourUnits + f) :
        sign \in {-1, 1}, h \in 0..MaxHours, f \in FractionChoices }

InitDur ==
    /\ durHours \in AmountChoices
    /\ durText = <<>>
    /\ durResult = JsNull
    /\ durPc = "value"
    /\ now \in {DateAt(2024, 1, 1, 0)}
    /\ categories = <<>>
    /\ projectionDays = MaxProjectionDays
    /\ pc = "done"
    /\ SimIdle
    /\ AppOff

NextDur == FormatHoursCall \/ ParseDurationCall

SpecDur == InitDur /\ [][NextDur]_vars


\* ------------------ texts typed into a duration field --------------------

\* blanks written around and between the tokens of a text
MaxPad == 1

Pads == {[i \in 1..n |-> " "] : n \in 0..MaxPad}

\* n minutes, in 1/HourUnits of an hour
MinuteUnits(n) == n * (HourUnits \div 60)

\* numerals of the decimal tests, with the hours they write
DecimalNumerals ==
    { [text |-> <<"0">>, v |-> 0],
      [text |-> <<"1", "0">>, v |-> Hours(10)],
      [text |-> <<"1", ".", "5">>, v |-> Hours(3) \div 2],
      [text |-> <<"2", ".", "2", "5">>, v |-> Hours(9) \div 4],
      [text |-> <<"0", ".", "5">>, v |-> Hours(1) \div 2] }

\* the hour numerals of the colon and the h/m tests
HourNumerals ==
    { [text |-> <<"1">>, v |-> Hours(1)],
      [text |-> <<"1", "0">>, v |-> Hours(10)],
      [text |-> <<"2", ".", "5">>, v |-> Hours(5) \div 2] }

\* the minute numerals of the colon and the h/m tests
MinuteNumerals ==
    { [text |-> <<"3", "0">>, v |-> MinuteUnits(30)],
      [text |-> <<"0", "0">>, v |-> MinuteUnits(0)],
      [text |-> <<"1", "5">>, v |-> MinuteUnits(15)],
      [text |-> <<"9", "0">>, v |-> MinuteUnits(90)] }

\* a plain decimal, with blanks around it
PlainTexts ==
    { [text |-> a \o n.text \o b, v |-> n.v] :
        a \in Pads, b \in Pads, n \in DecimalNumerals }

\* the colon form, with blanks around the numerals
ColonTexts ==
    { [text |-> a \o h.text \o b \o <<":">> \o c \o m.text \o d,
       v    |-> h.v + m.v] :
        a \in Pads, b \in Pads, c \in Pads, d \in Pads,
        h \in HourNumerals, m \in MinuteNumerals }

\* one part of the h/m form: a numeral, blanks, the unit letter in either
\* case; or the part left out
UnitParts(numerals, letters) ==
    { [text |-> n.text \o p \o <<l>>, v |-> n.v] :
        n \in numerals, p \in Pads, l \in letters }
    \cup { [text |-> <<>>, v |-> 0] }

\* the h/m form: the hours part, the minutes part, or both
CompositeTexts ==
    LET hs == UnitParts(HourNumerals, {"h", "H"})
        ms == UnitParts(MinuteNumerals, {"m", "M"})
    IN  { [text |-> a \o hm[1].text \o b \o hm[2].text \o c,
           v    |-> hm[1].v + hm[2].v] :
            a \in Pads, b \in Pads, c \in Pads,
            hm \in {x \in hs \X ms : x[1].text # <<>> \/ x[2].text # <<>>} }

AcceptedTexts == PlainTexts \cup ColonTexts \cup CompositeTexts

\* texts that are none of the three forms: the invalid inputs of the tests,
\* an h/m text with a letter before or after it, an hours part followed by a
\* bare numeral, a third colon piece, a colon piece left empty, a unit letter
\* alone, two dots, two numerals, a numeral with two dots before the unit
MalformedTexts ==
    { <<"a", "b", "c">>, <<"h", "e", "l", "l", "o">>, <<"x", "y", "z">>,
      <<"z", "1", "h">>, <<"1", "h", "z">>, <<"1", "h", "3", "0">>,
      <<"1", ":", "3", "0", ":", "4", "5">>, <<":">>, <<"1", ":">>,
      <<"h">>, <<"m">>, <<"1", ".", ".", "5">>, <<"1", " ", "2">>,
      <<"1", ".", "5", ".", "2", "h">> }

\* texts of white space only, as left by the space bar in a field
BlankTexts == { <<" ">>, <<" ", " ">> }

TextChoices == {t.text : t \in AcceptedTexts} \cup MalformedTexts \cup BlankTexts

\* parseDuration applied to a typed text
InitParse ==
    /\ durHours = 0
    /\ durText \in TextChoices
    /\ durResult = JsNull
    /\ durPc = "text"
    /\ now \in {DateAt(2024, 1, 1, 0)}
    /\ categories = <<>>
    /\ projectionDays = MaxProjectionDays
    /\ pc = "done"
    /\ SimIdle
    /\ AppOff

NextParse == ParseDurationCall

SpecParse == InitParse /\ [][NextParse]_vars


\* ------------------------ logging time off -------------------------------

\* texts typed into the modal's duration field that parse, with the hours d
\* they parse to: the test's "8", the placeholder's forms, and texts typed
\* with a sign
LogTexts ==
    { [text |-> <<"8">>, d |-> Hours(8)],
      [text |-> <<"-", "8">>, d |-> Hours(-8)],
      [text |-> <<"+", "8">>, d |-> Hours(8)],
      [text |-> <<"-", "1", ".", "5">>, d |-> Hours(-3) \div 2],
      [text |-> <<"4", "h", " ", "3", "0", "m">>, d |-> Hours(9) \div 2],
      [text |-> <<"1", ":", "3", "0">>, d |-> Hours(3) \div 2],
      [text |-> <<"0">>, d |-> 0] }

\* what the field can hold: those, a text that does not parse, and a blank
LogAmountChoices == {t.text : t \in LogTexts} \cup {<<"a", "b", "c">>, <<" ">>}

InitLog ==
    /\ amount = <<>>
    /\ isUsage = TRUE
    /\ logPc = "form"
    /\ logPosted = JsNull
    /\ logAlert = "none"
    /\ now \in {DateAt(2024, 1, 1, 0)}
    /\ categories = <<>>
    /\ projectionDays = MaxProjectionDays
    /\ pc = "done"
    /\ SimIdle
    /\ DurOff
    /\ CacheOff
    /\ ForecastOff
    /\ PresetOff
    /\ PagesOff

NextLog ==
    \/ LogOpen
    \/ \E text \in LogAmountChoices : SetAmount(text)
    \/ \E usage \in BOOLEAN : SetIsUsage(usage)
    \/ handleLogSubmit
    \/ LogPostSucceeds
    \/ LogPostFails

SpecLog == InitLog /\ [][NextLog]_vars


\* --------------------- cached results and the ledger ---------------------

InitCache ==
    /\ CacheOff
    /\ LogOff
    /\ ForecastOff
    /\ PresetOff
    /\ now \in {DateAt(2024, 1, 1, 0)}
    /\ categories = <<>>
    /\ projectionDays = MaxProjectionDays
    /\ pc = "done"
    /\ SimIdle
    /\ DurOff
    /\ PagesOff

NextCache ==
    \/ \E k \in QueryKeys : QueryFetch(k)
    \/ RefetchForecast
    \/ StaleTimePasses
    \/ \E mutation \in LedgerMutations : MutationSucceeds(mutation)

SpecCache == InitCache /\ [][NextCache]_vars


\* ------------------------ asking for a forecast --------------------------

\* what the date field can hold: nothing, yesterday, today, tomorrow, a week
\* from today
TargetDateChoices(t) == {Null} \cup {Some(DayOf(t) + d) : d \in {-1, 0, 1, 7}}

InitForecast ==
    /\ ForecastOff
    /\ LogOff
    /\ CacheOff
    /\ PresetOff
    /\ now \in NowChoices
    /\ categories = <<>>
    /\ projectionDays = MaxProjectionDays
    /\ pc = "done"
    /\ SimIdle
    /\ DurOff
    /\ PagesOff

NextForecast ==
    \/ \E d \in TargetDateChoices(now) : SetTargetDate(d)
    \/ handleForecast
    \/ ForecastResolves
    \/ ForecastRejects

SpecForecast == InitForecast /\ [][NextForecast]_vars


\* ------------------------- loading the presets ---------------------------

\* texts of the three number fields: the defaults 0, 10 and 4, other
\* values, and a field cleared
TenureChoices == {<<"0">>, <<"3">>, <<"6">>, <<>>}

ShiftLengthChoices == {<<"1", "0">>, <<"1", "2">>, <<"8">>, <<>>}

ShiftsPerWeekChoices == {<<"4">>, <<"3">>, <<"5">>, <<>>}

InitPreset ==
    /\ tenure \in TenureChoices
    /\ shiftLength \in ShiftLengthChoices
    /\ shiftsPerWeek \in ShiftsPerWeekChoices
    /\ presetPayload = Null
    /\ presetCategories = <<>>
    /\ presetPc = "form"
    /\ LogOff
    /\ CacheOff
    /\ ForecastOff
    /\ now \in {DateAt(2024, 1, 1, 0)}
    /\ categories = <<>>
    /\ projectionDays = MaxProjectionDays
    /\ pc = "done"
    /\ SimIdle
    /\ DurOff
    /\ PagesOff

NextPreset ==
    \/ \E confirmed \in BOOLEAN : handleLoadPresets(confirmed)
    \/ PresetSucceeds
    \/ PresetFails

SpecPreset == InitPreset /\ [][NextPreset]_vars


\* ------------------ the projection of several categories ------------------

\* the names the user gave the categories; nothing in the category form or
\* in the schema keeps two categories from having the same name
CategoryNames == {"PTO", "Sick"}

\* lists of two categories: 10-hour weekly and monthly ones, with and
\* without the grant and max_balance, under every choice of names
CategoryLists(t) ==
    LET some == { c \in CategoryChoices(t) :
                    /\ c.accrual_rate = Hours(10)
                    /\ c.accrual_frequency \in {WEEKLY, MONTHLY}
                    /\ c.current_balance = Hours(78)
                    /\ c.start_date = AddDays(DayOf(t) * TicksPerDay, -10)
                    /\ c.max_balance \in {Null, Some(Hours(80))}
                    /\ c.yearly_accrual_cap = Null }
    IN  { << [a EXCEPT !.id = 1, !.name = "PTO"],
             [b EXCEPT !.id = 2, !.name = n] >> :
            a \in some, b \in some, n \in CategoryNames }

InitMulti ==
    /\ now \in {t \in NowChoices : t % TicksPerDay = 0}
    /\ categories \in CategoryLists(now)
    /\ projectionDays = MaxProjectionDays
    /\ pc = "stale"
    /\ SimIdle
    /\ AppOff
    /\ DurOff

NextMulti == SimStart \/ SimDay \/ SimReturn

SpecMulti == InitMulti /\ [][NextMulti]_vars


\* -------------------------- the category form ----------------------------

\* the category listed when the page opens
ListedCategory ==
    [id |-> 1, accrual_rate |-> Hours(8), starting_balance |-> Hours(40),
     max_balance |-> Some(Hours(80))]

\* texts typed into the form's duration fields: for each field one that
\* does not parse, for the required rate one that does
RateTexts == { <<"8">>, <<"a", "b", "c">> }

InitialTexts == { <<"x">> }

MaxTexts == { <<"z">> }

InitForm ==
    /\ formOpen = TRUE
    /\ serverCategories = {ListedCategory}
    /\ editingId = Null
    /\ newCatRate = <<>> /\ newCatInitial = <<"0">> /\ newCatMax = <<>>
    /\ catInFlight = <<>> /\ catAlert = "none"
    /\ catPrompts = <<>>
    /\ LogOff
    /\ CacheOff
    /\ ForecastOff
    /\ PresetOff
    /\ CalOff
    /\ GenOff
    /\ now \in {DateAt(2024, 1, 1, 0)}
    /\ categories = <<>>
    /\ projectionDays = MaxProjectionDays
    /\ pc = "done"
    /\ SimIdle
    /\ DurOff

NextForm ==
    \/ \E text \in RateTexts : SetNewCatRate(text)
    \/ \E text \in InitialTexts : SetNewCatInitial(text)
    \/ \E text \in MaxTexts : SetNewCatMax(text)
    \/ handleCreateSubmit
    \/ resetForm
    \/ \E cat \in serverCategories : handleEdit(cat)
    \/ \E cat \in serverCategories, confirmed \in BOOLEAN :
           handleDelete(cat.id, confirmed)
    \/ \E n \in 1..Len(catInFlight) : CategoryRequestSucceeds(n)
    \/ \E n \in 1..Len(catInFlight) : CategoryRequestFails(n)

SpecForm == InitForm /\ [][NextForm]_vars


\* ---------------- the two forms with duration fields ---------------------

\* either the log modal is open or the settings page shows the category form
InitEntry == InitLog \/ InitForm

NextEntry == NextLog \/ NextForm

SpecEntry == InitEntry /\ [][NextEntry]_vars


\* ------------------ a category edited and saved as it is ------------------

\* what the listed category has stored: whole hours; 3.08 hours a period,
\* as 80 hours a year accrued biweekly; 1.5 hours; 1 hour 59.7 minutes; a
\* starting balance of nothing, of 40 hours, overdrawn by 1.5 hours; no
\* max_balance, one of 0 and one of 80 hours
StoredChoices ==
    { [id |-> 1, accrual_rate |-> rate, starting_balance |-> initial,
       max_balance |-> max] :
        rate \in {Hours(8), Hours(3) + 480, Hours(1) + 3000, Hours(1) + 5970},
        initial \in {0, Hours(40), 0 - (Hours(1) + 3000)},
        max \in {Null, Some(0), Some(Hours(80))} }

InitEdit ==
    /\ formOpen = TRUE
    /\ \E cat \in StoredChoices : serverCategories = {cat}
    /\ editingId = Null
    /\ newCatRate = <<>> /\ newCatInitial = <<"0">> /\ newCatMax = <<>>
    /\ catInFlight = <<>> /\ catAlert = "none"
    /\ catPrompts = <<>>
    /\ LogOff
    /\ CacheOff
    /\ ForecastOff
    /\ PresetOff
    /\ CalOff
    /\ GenOff
    /\ now \in {DateAt(2024, 1, 1, 0)}
    /\ categories = <<>>
    /\ projectionDays = MaxProjectionDays
    /\ pc = "done"
    /\ SimIdle
    /\ DurOff

\* the Edit button, then Update Category with no field touched
NextEdit ==
    \/ \E cat \in serverCategories : handleEdit(cat)
    \/ handleCreateSubmit

SpecEdit == InitEdit /\ [][NextEdit]_vars


\* ------------------------- deleting on the pages --------------------------

\* the calendar shows two shifts of one series, a shift that does not recur
\* and two logs
InitCal ==
    /\ calShifts = { [id |-> 1, series_id |-> Some("A")],
                     [id |-> 2, series_id |-> Some("A")],
                     [id |-> 3, series_id |-> Null] }
    /\ calLogs = {1, 2}
    /\ calPrompts = <<>>
    /\ calInFlight = <<>>
    /\ FormOff
    /\ GenOff
    /\ LogOff
    /\ CacheOff
    /\ ForecastOff
    /\ PresetOff
    /\ now \in {DateAt(2024, 1, 1, 0)}
    /\ categories = <<>>
    /\ projectionDays = MaxProjectionDays
    /\ pc = "done"
    /\ SimIdle
    /\ DurOff

NextCal ==
    \/ \E logId \in calLogs, confirmed \in BOOLEAN : handleDeleteLog(logId, confirmed)
    \/ \E shift \in calShifts, first \in BOOLEAN, second \in BOOLEAN :
           handleDeleteShift(shift.id, first, second)
    \/ \E n \in 1..Len(calInFlight) : CalDeleteSucceeds(n)
    \/ \E n \in 1..Len(calInFlight) : CalDeleteFails(n)

\* either the calendar or the settings page is shown
InitDelete == InitCal \/ InitForm

NextDelete == NextCal \/ NextForm

SpecDelete == InitDelete /\ [][NextDelete]_vars


\* ----------------------- the recurring shifts ----------------------------

\* selectedDays: none, Monday, and Monday, Wednesday and Friday
SelectedDaysChoices == { {}, {1}, {1, 3, 5} }

\* startTime and endTime in minutes of the day: 09:00 to 17:00, 22:00 to
\* 06:00 overnight, and 09:00 to 09:00
ShiftTimeChoices == { <<9 * 60, 17 * 60>>, <<22 * 60, 6 * 60>>, <<9 * 60, 9 * 60>> }

\* startDate: Monday 2024-01-01 local time at noon, as in the tests, half an
\* hour after midnight and at 20:00
StartDateChoices ==
    { DaysFromCivil(2024, 1, 1) * MinutesPerDay + minute : minute \in {12 * 60, 30, 20 * 60} }

\* the host's time zone in minutes ahead of UTC: UTC-5, UTC and UTC+1
OffsetChoices == { 0 - 5 * 60, 0, 60 }

\* durationYears: 0 for the start day alone, and the default of 1
DurationChoices == {0, 1}

InitGen ==
    /\ genArgs \in [selectedDays : SelectedDaysChoices,
                    startTime : {t[1] : t \in ShiftTimeChoices},
                    endTime : {t[2] : t \in ShiftTimeChoices},
                    startDate : StartDateChoices,
                    durationYears : DurationChoices,
                    offset : OffsetChoices]
    /\ <<genArgs.startTime, genArgs.endTime>> \in ShiftTimeChoices
    /\ genD = 0 /\ genEnd = 0 /\ genShifts = <<>>
    /\ genPc = "called"
    /\ FormOff
    /\ CalOff
    /\ LogOff
    /\ CacheOff
    /\ ForecastOff
    /\ PresetOff
    /\ now \in {DateAt(2024, 1, 1, 0)}
    /\ categories = <<>>
    /\ projectionDays = MaxProjectionDays
    /\ pc = "done"
    /\ SimIdle
    /\ DurOff

NextGen == GenStart \/ GenDay \/ GenReturn

SpecGen == InitGen /\ [][NextGen]_vars


\* ======================= properties of the projection ====================

Max(a, b) == IF a >= b THEN a ELSE b

\* the loop body has run at least once in the current computation
Stepped == locals # NoLocals

Cats == 1..Len(categories)

\* the year's running total an iteration works with, after the new-year check
YaStart(l) == IF l.reset THEN 0 ELSE l.yaBefore

\* the calendar date is a January 1st
IsJan1(t) == CivilFromDays(DayOf(t)).m = 1 /\ CivilFromDays(DayOf(t)).d = 1

\* the calendar date is a Sunday: a whole number of weeks from 2024-01-07
IsSunday(t) == (DayOf(t) - DaysFromCivil(2024, 1, 7)) % 7 = 0

\* the calendar date is the first of a month
IsFirstOfMonth(t) == CivilFromDays(DayOf(t)).d = 1

\* the data point of the latest simulated day
LastPoint == data[Len(data)]

C3_ResetAtNewYear ==
    [][ (pc = "loop" /\ data' # data) =>
          \A i \in Cats :
            LET c        == categories[i]
                crossing == /\ currentSimDate # today
                            /\ GetFullYear(currentSimDate)
                                 # GetFullYear(AddDays(currentSimDate, -1))
                counted  == IF Truthy(c.yearly_accrual_cap)
                            THEN locals'[i].add ELSE 0
            IN  /\ catStates'[i].yearlyAccrued =
                       (IF crossing THEN 0 ELSE catStates[i].yearlyAccrued) + counted
                /\ (crossing /\ Truthy(c.yearly_accrual_cap) /\ locals'[i].shouldAccrue)
                       => locals'[i].add = Min(c.accrual_rate, c.yearly_accrual_cap[1])
      ]_vars

\* C3's case: a weekly category that reached its cap of 15 in December accrues
\* the full 10 again on the first Sunday of the new year
C3_Witness ==
    /\ Stepped
    /\ \E i \in Cats : \E k \in 1..Len(data) :
        /\ categories[i].accrual_frequency = WEEKLY
        /\ categories[i].accrual_rate = Hours(10)
        /\ categories[i].yearly_accrual_cap = Some(Hours(15))
        /\ categories[i].accrued_ytd = Some(Hours(12))
        /\ GetFullYear(today) = 2023
        /\ locals[i].simDate = DateAt(2024, 1, 7, 0)
        /\ locals[i].add = Hours(10)
        /\ catStates[i].yearlyAccrued = Hours(10)
        \* the last December event found the cap reached
        /\ data[k].fullDate = DateAt(2023, 12, 31, 0)
        /\ data[k].vals[categories[i].name] = data[k - 1].vals[categories[i].name]

\* C4: on every simulated January 1st the whole annual_grant_amount is added,
\* whatever the yearly cap; the grant is not counted in the year's running
\* total, and the periodic addition of the day is limited by the cap's
\* headroom exactly as on a day without a grant.
C4_GrantOutsideYearlyCap ==
    Stepped =>
        \A i \in Cats :
            LET c   == categories[i]
                l   == locals[i]
                st  == catStates[i]
                g   == c.annual_grant_amount
                cap == c.yearly_accrual_cap
            IN  /\ l.grant = IF IsJan1(l.simDate) /\ g # Null /\ g[1] > 0
                             THEN g[1] ELSE 0
                /\ st.yearlyAccrued =
                       YaStart(l) + (IF Truthy(cap) THEN l.add ELSE 0)
                /\ l.add = IF ~l.shouldAccrue THEN 0
                           ELSE IF Truthy(cap)
                                THEN Max(0, Min(l.dailyAccrual, cap[1] - YaStart(l)))
                                ELSE l.dailyAccrual
                /\ ~Truthy(c.max_balance)
                       => st.simBalance = l.balBefore + l.grant + l.add

\* C4's case: on 2024-01-01 a grant of 20 is added in full beside an annual
\* accrual of 10 under a cap of 15, and only the 10 is counted
C4_Witness ==
    /\ Stepped
    /\ \E i \in Cats :
        /\ categories[i].yearly_accrual_cap = Some(Hours(15))
        /\ categories[i].max_balance = Null
        /\ locals[i].simDate = DateAt(2024, 1, 1, 0)
        /\ locals[i].grant = Hours(20)
        /\ locals[i].add = Hours(10)
        /\ catStates[i].yearlyAccrued = Hours(10)
        /\ catStates[i].simBalance = locals[i].balBefore + Hours(30)


\* C5 as stated: no periodic accrual event is applied on a simulated day
\* earlier than the category's start_date, whatever the frequency.
C5_NoEventBeforeStartDate ==
    Stepped =>
        \A i \in Cats :
            locals[i].shouldAccrue
                => DayOf(locals[i].simDate) >= DayOf(categories[i].start_date)

\* the anchor day of a calendar-anchored frequency
IsAnchorDay(freq, t) ==
    IF freq = WEEKLY THEN IsSunday(t)
    ELSE IF freq = MONTHLY THEN IsFirstOfMonth(t)
    ELSE IsJan1(t)

\* C6: on simulated days on or after start_date a weekly, monthly or annual
\* category has a periodic event exactly on its anchor days (Sundays, firsts of
\* a month, January 1sts), of amount accrual_rate, and each calendar day is
\* simulated once; the weekly rate-2 category started on Monday 2024-01-01
\* stands at its starting balance + 6 on 2024-01-21.
C6_AnchoredEvents ==
    Stepped =>
        /\ Len(data) >= 2
               => DayOf(LastPoint.fullDate) = DayOf(data[Len(data) - 1].fullDate) + 1
        /\ \A i \in Cats :
            LET c == categories[i]
                l == locals[i]
            IN  /\ ( /\ c.accrual_frequency \in {WEEKLY, MONTHLY, ANNUALLY}
                     /\ DayOf(l.simDate) >= DayOf(c.start_date) )
                      => /\ l.shouldAccrue <=> IsAnchorDay(c.accrual_frequency, l.simDate)
                         /\ l.dailyAccrual =
                                IF IsAnchorDay(c.accrual_frequency, l.simDate)
                                THEN c.accrual_rate ELSE 0
                         /\ ~Truthy(c.yearly_accrual_cap) => l.add = l.dailyAccrual
                /\ ( /\ today = DateAt(2024, 1, 1, 0)
                     /\ c \in ExampleCategories(today)
                     /\ l.simDate = DateAt(2024, 1, 21, 0) )
                      => LastPoint.vals[categories[i].name] = c.current_balance + Hours(6)

\* C6's case: the third Sunday of the example, 2024-01-21
C6_Witness ==
    /\ Stepped
    /\ today = DateAt(2024, 1, 1, 0)
    /\ \E i \in Cats :
        /\ categories[i] \in ExampleCategories(today)
        /\ locals[i].simDate = DateAt(2024, 1, 21, 0)
        /\ locals[i].shouldAccrue
        /\ locals[i].add = Hours(2)
        /\ LastPoint.vals[categories[i].name] = categories[i].current_balance + Hours(6)

\* C7 as stated: a biweekly category has a periodic event, of amount
\* accrual_rate, exactly on the simulated days whose calendar-day offset from
\* start_date is a positive multiple of 14.
C7_BiweeklyOnCalendarOffsets ==
    Stepped =>
        \A i \in Cats :
            LET c      == categories[i]
                l      == locals[i]
                offset == DayOf(l.simDate) - DayOf(c.start_date)
            IN  c.accrual_frequency = BIWEEKLY =>
                    /\ l.shouldAccrue <=> (offset > 0 /\ offset % 14 = 0)
                    /\ l.shouldAccrue => l.dailyAccrual = c.accrual_rate

\* C8 as stated: a daily category has one periodic event of amount
\* accrual_rate on every simulated day on or after start_date.
C8_DailyEveryDay ==
    Stepped =>
        \A i \in Cats :
            LET c == categories[i]
                l == locals[i]
            IN  ( /\ c.accrual_frequency = DAILY
                  /\ DayOf(l.simDate) >= DayOf(c.start_date) )
                    => /\ l.shouldAccrue
                       /\ l.dailyAccrual = c.accrual_rate

\* two completed computations were given the same inputs
SameInputs(a, b) ==
    /\ a.categories = b.categories
    /\ a.today = b.today
    /\ a.projectionDays = b.projectionDays

C10_RoundTripWithinAMinute ==
    durPc = "parsed" =>
        /\ durResult.kind = "num"
        /\ Abs(durResult.v - durHours) <= HourUnits \div 60


\* ===================== properties of parseDuration =======================

\* C11 as stated: every non-empty text that is none of the accepted forms
\* (plain decimal, H:MM, <H>h<M>m) parses to null, never to a number.
C11_MalformedIsNull ==
    (durPc = "parsed" /\ durText \in MalformedTexts) => durResult = JsNull

\* C12: a text in one of the accepted forms, in either case and with blanks
\* around and between its tokens, parses to exactly the hours it writes:
\* the number, H + MM/60, or H + M/60 with an absent part counting 0.
C12_AcceptedFormsValue ==
    durPc = "parsed" =>
        \A t \in AcceptedTexts : t.text = durText => durResult = JsNum(t.v)

\* C12 happens: " 1 H 30 M " has been parsed to 1.5 hours
C12_Witness ==
    /\ durPc = "parsed"
    /\ durText = <<" ", "1", " ", "H", " ", "3", "0", " ", "M", " ">>
    /\ durResult = JsNum(Hours(3) \div 2)


\* ====================== properties of formatHours ========================

\* |v| rounded to the nearest whole minute, in minutes
RoundedMinutes(v) == (2 * Abs(v) * 60 + HourUnits) \div (2 * HourUnits)

\* "{H}h {M}m" of a total of whole minutes: H the whole hours, M the
\* remaining minutes in 0..59, a zero component left out, "0h" for zero,
\* "-" in front when negative
RenderingOf(total, negative) ==
    LET H     == total \div 60
        M     == total % 60
        hText == IF H > 0 THEN NatToStr(H) \o <<"h">> ELSE <<>>
        mText == IF M > 0 THEN NatToStr(M) \o <<"m">> ELSE <<>>
        gap   == IF H > 0 /\ M > 0 THEN <<" ">> ELSE <<>>
    IN  IF total = 0 THEN <<"0", "h">>
        ELSE (IF negative THEN <<"-">> ELSE <<>>) \o hText \o gap \o mText

\* C13 as stated: formatHours(v) is |v| rounded to the nearest whole minute
\* written as "{H}h {M}m" with M in 0..59, zero components left out, "0h"
\* when both are zero, and "-" in front when v is negative.
C13_RendersRoundedMinutes ==
    durPc = "text" => durText = RenderingOf(RoundedMinutes(durHours), durHours < 0)


\* ================== properties of overdrawn balances =====================

\* what a category's balance is after a day's grant and accrual, before the
\* upper clamp
Unclamped(l) == l.balBefore + l.grant + l.add

\* C14: the simulation has no floor at zero. No day ends with a balance
\* above the one it started with plus that day's grant and accrual; a
\* balance that is still negative after them is carried forward and emitted
\* as it is, and a day without grant or accrual leaves a negative balance
\* unchanged.
C14_NoFloorAtZero ==
    Stepped =>
        \A i \in Cats :
            LET l == locals[i]
            IN  /\ catStates[i].simBalance <= Unclamped(l)
                /\ Unclamped(l) < 0 =>
                       /\ catStates[i].simBalance = Unclamped(l)
                       /\ LastPoint.vals[categories[i].name] = ToFixed2(Unclamped(l))
                       /\ LastPoint.vals[categories[i].name] < 0
                /\ (l.balBefore < 0 /\ l.grant = 0 /\ l.add = 0) =>
                       catStates[i].simBalance = l.balBefore

\* C14 happens: a category that opened 10 hours overdrawn has accrued 2
\* hours and ends a later day without grant or accrual still 8 hours below
\* zero
C14_Witness ==
    /\ Stepped
    /\ categories[1].current_balance = Hours(-10)
    /\ locals[1].balBefore = Hours(-8)
    /\ locals[1].grant = 0 /\ locals[1].add = 0
    /\ catStates[1].simBalance = Hours(-8)
    /\ LastPoint.vals[categories[1].name] = Hours(-8)


\* ======================= properties of LogModal ==========================

\* a step of handleLogSubmit that posts a payload
LogSubmitStep ==
    /\ logPc \in {"form", "posting"}
    /\ logPc' = "posting"
    /\ (logPc = "form" \/ logPosted' # logPosted)
    /\ UNCHANGED <<amount, isUsage>>

\* C15: whenever a text that parses to a duration d is submitted, the posted
\* amount is -|d| if the toggle is on Usage and +|d| if it is on Adjustment,
\* whatever sign the text was typed with.
C15_UsageNegativeAdjustmentPositive ==
    [][LogSubmitStep =>
          \A t \in LogTexts :
              t.text = amount =>
                  logPosted' = JsNum(IF isUsage THEN 0 - Abs(t.d) ELSE Abs(t.d))]_vars

\* C15 happens: "-8" typed with the toggle on Adjustment has been posted as
\* +8 hours
C15_Witness ==
    /\ logPc = "posting"
    /\ amount = <<"-", "8">>
    /\ ~isUsage
    /\ logPosted = JsNum(Hours(8))


\* ===================== properties of the query client ====================

\* the cached results that carry balances
BalanceKeys == {"ptoCategories", "ptoForecast"}

\* C16 as stated: after a successful ledger mutation every cached result
\* that carries balances is stale until it has been fetched again, so a
\* result that is not marked stale was fetched after the last mutation.
C16_BalancesStaleAfterMutation ==
    \A k \in BalanceKeys :
        queryCache[k].status = "fresh" => queryCache[k].version = ledgerVersion


\* ===================== properties of the forecast card ===================

\* C17 as stated: no forecast is requested for a target date earlier than
\* today; such a date is rejected before any request is made.
C17_NoRequestBeforeToday ==
    \A i \in 1..Len(forecastRequests) : forecastRequests[i] >= DayOf(now)


\* =================== properties of the projected range ===================

\* the points of a series are those of consecutive calendar days from the
\* day first: the k-th point is dated k - 1 days after it and labelled with
\* that day's month and day
ConsecutiveDays(points, first) ==
    \A k \in 1..Len(points) :
        /\ DayOf(points[k].fullDate) = DayOf(first) + (k - 1)
        /\ points[k].date = <<CivilFromDays(DayOf(first) + (k - 1)).m - 1,
                              CivilFromDays(DayOf(first) + (k - 1)).d>>

PresetNamed(name) ==
    CHOOSE c \in {presetCategories[i] : i \in 1..Len(presetCategories)} : c.name = name

\* C19: whatever the onboarding parameters, the generated Flex category
\* accrues 1.85 hours weekly up to a max_balance of 48 and the generated UPT
\* category has a max_balance of 80.
C19_FlexAndUptFixed ==
    presetPc = "loaded" =>
        /\ \E i \in 1..Len(presetCategories) : presetCategories[i].name = "Flex PTO"
        /\ \E i \in 1..Len(presetCategories) : presetCategories[i].name = "UPT"
        /\ PresetNamed("Flex PTO").accrual_rate = Hours(185) \div 100
        /\ PresetNamed("Flex PTO").accrual_frequency = WEEKLY
        /\ PresetNamed("Flex PTO").max_balance = Some(Hours(48))
        /\ PresetNamed("UPT").max_balance = Some(Hours(80))

\* C19 happens: presets have been generated for shift_length 10,
\* shifts_per_week 4 and tenure_years 0
C19_Witness ==
    /\ presetPc = "loaded"
    /\ presetPayload # Null
    /\ presetPayload[1].shift_length = Hours(10)
    /\ presetPayload[1].shifts_per_week = Hours(4)
    /\ presetPayload[1].tenure_years = 0
    /\ PresetNamed("Flex PTO").accrual_rate = Hours(185) \div 100
    /\ PresetNamed("UPT").max_balance = Some(Hours(80))


\* ================= properties of splitting a simulation ==================

\* what one iteration of the loop leaves for one category: its state, the
\* year the loop holds and the next date
AfterDay(cat, st, year, date) ==
    LET reset == IsNewYear(date, year)
    IN  [st   |-> CatDay(cat, st, date, reset).st,
         year |-> IF reset THEN GetFullYear(date) ELSE year,
         date |-> AddDays(date, 1)]

\* the loop run for one category from the date first while the date is not
\* after last
RECURSIVE SimulateRange(_, _, _, _, _)
SimulateRange(cat, st, year, first, last) ==
    IF first > last THEN st
    ELSE CHOOSE r \in { SimulateRange(cat, x.st, x.year, x.date, last) :
                          x \in {AfterDay(cat, st, year, first)} } : TRUE

\* the simulation of a category as chartData starts it on the date first
SimulateFrom(cat, st, first, last) ==
    SimulateRange(cat, st, GetFullYear(first), first, last)

\* C20 as stated: simulating up to a split date and then simulating from
\* the split date on, starting from the balance reached, ends with the
\* balance of one simulation over the whole range; in particular a
\* simulation from today to today returns the current balance unchanged.
C20_ComposesAcrossSplit ==
    (pc = "done" /\ Len(categories) > 0) =>
        \A i \in Cats :
            LET cat == categories[i]
                st0 == InitialCatStates(categories)[i]
            IN  /\ SimulateFrom(cat, st0, today, today).simBalance = cat.current_balance
                /\ \A k \in 0..projectionDays :
                       LET split == AddDays(today, k)
                           upTo  == SimulateFrom(cat, st0, today, split)
                       IN  SimulateFrom(cat, upTo, split, endDate).simBalance
                               = catStates[i].simBalance


\* ============== properties of a day with a grant and an accrual ==========

\* the upper clamp: a max_balance that is set and not zero bounds the balance
ClampedAbove(cat, balance) ==
    IF Truthy(cat.max_balance) THEN Min(balance, cat.max_balance[1]) ELSE balance

\* C21: on a Jan 1 that carries both the annual grant and a periodic
\* accrual event, the grant is added to the running balance first, in full,
\* and the accrual is added to the result as an addition of its own; the
\* day's balance is the clamp of that sum.
C21_GrantThenAccrual ==
    Stepped =>
        \A i \in Cats :
            LET l   == locals[i]
                cat == categories[i]
            IN  (/\ IsJan1(l.simDate)
                 /\ Truthy(cat.annual_grant_amount)
                 /\ l.shouldAccrue) =>
                    /\ l.grant = cat.annual_grant_amount[1]
                    /\ l.balAfterGrant = l.balBefore + cat.annual_grant_amount[1]
                    /\ catStates[i].simBalance = ClampedAbove(cat, l.balAfterGrant + l.add)

\* C21 happens: on Jan 1 a monthly category at 78 hours with a grant of 20
\* hours and a max_balance of 80 hours stood at 98 hours after the grant,
\* accrued on top of it and was clamped to 80 hours
C21_Witness ==
    /\ Stepped
    /\ IsJan1(locals[1].simDate)
    /\ categories[1].accrual_frequency = MONTHLY
    /\ locals[1].balBefore = Hours(78)
    /\ locals[1].grant = Hours(20)
    /\ locals[1].balAfterGrant = Hours(98)
    /\ locals[1].add > 0
    /\ catStates[1].simBalance = Hours(80)


\* the accrual_rate as far as the year's cap still has room for it; a cap
\* that is absent or zero does not limit
CapLimitedRate(cat, accruedSoFar) ==
    IF Truthy(cat.yearly_accrual_cap)
    THEN Max(0, Min(cat.accrual_rate, cat.yearly_accrual_cap[1] - accruedSoFar))
    ELSE cat.accrual_rate

\* C27: a category with accrual_frequency = annually and an
\* annual_grant_amount gets both additions on every Jan 1: the day's balance
\* is the balance before, plus the grant, plus the accrual_rate as far as the
\* yearly cap allows, clamped at max_balance and by nothing else.
C27_AnnualAdditionsStack ==
    Stepped =>
        \A i \in Cats :
            LET l   == locals[i]
                cat == categories[i]
            IN  (/\ IsJan1(l.simDate)
                 /\ cat.accrual_frequency = ANNUALLY
                 /\ Truthy(cat.annual_grant_amount)) =>
                    catStates[i].simBalance =
                        ClampedAbove(cat, l.balBefore + cat.annual_grant_amount[1]
                                          + CapLimitedRate(cat, YaStart(l)))

\* C27 happens: an annual category at 78 hours with a grant of 20 hours, a
\* rate of 10 hours and 3 hours left under its yearly cap ends its Jan 1 at
\* 101 hours
C27_Witness ==
    /\ Stepped
    /\ IsJan1(locals[1].simDate)
    /\ categories[1].accrual_frequency = ANNUALLY
    /\ categories[1].annual_grant_amount = Some(Hours(20))
    /\ categories[1].accrual_rate = Hours(10)
    /\ categories[1].max_balance = Null
    /\ locals[1].balBefore = Hours(78)
    /\ locals[1].add = Hours(3)
    /\ catStates[1].simBalance = Hours(101)


\* ============ properties of the projection of several categories =========

\* the balance the page emits for a category on the given day when the
\* category is the only one projected
AloneOn(cat, first, day) ==
    ToFixed2(SimulateFrom(cat, InitialCatStates(<<cat>>)[1], first, day).simBalance)

\* C28: in a projection of several categories every data point holds a
\* balance for each input category, and that balance is the one the category
\* has when it is projected alone, whatever the other categories are.
C28_OwnValuePerCategory ==
    Stepped =>
        /\ Cardinality(DOMAIN LastPoint.vals) = Len(categories)
        /\ \A i \in Cats :
              LastPoint.vals[categories[i].name]
                  = AloneOn(categories[i], today, LastPoint.fullDate)


\* =================== properties of parseDuration's result ================

\* C23: for every input string parseDuration returns null or a finite
\* number, never NaN.
C23_NullOrFinite ==
    durPc = "parsed" => durResult.kind \in {"null", "num"}


\* ================= properties of the category form =======================

\* the text of a duration field does not parse: parseDuration gives null
FailsToParse(text) == parseDuration(text) = JsNull

AsPayload(opt) == IF opt = Null THEN JsNull ELSE JsNum(opt[1])

\* C24: a category opened for editing and saved with no field changed gives
\* an update whose accrual_rate, starting_balance and max_balance are the
\* category's stored values.
C24_UnchangedSaveKeepsValues ==
    \A k \in 1..Len(catInFlight) :
        LET request == catInFlight[k]
        IN  request.kind = "update" =>
                \E cat \in serverCategories :
                    /\ request.id = Some(cat.id)
                    /\ request.payload.accrual_rate = JsNum(cat.accrual_rate)
                    /\ request.payload.starting_balance = JsNum(cat.starting_balance)
                    /\ request.payload.max_balance = AsPayload(cat.max_balance)


\* C25: once the deletion of a category has succeeded the form is not in
\* edit mode for that category: the category being edited is always one the
\* server still has, however the clicks on Edit, Cancel and Delete and the
\* response to the delete request interleave.
C25_NotEditingDeleted ==
    editingId # Null => \E cat \in serverCategories : cat.id = editingId[1]


\* ================= properties of the delete buttons ======================

\* the step issues a delete request from the calendar
CalDeleteIssued == Len(calInFlight') > Len(calInFlight)

\* the step issues a delete request for a category
CategoryDeleteIssued ==
    /\ Len(catInFlight') > Len(catInFlight)
    /\ catInFlight'[Len(catInFlight')].kind = "delete"

\* every prompt of the sequence was declined
AllDeclined(prompts) == \A k \in 1..Len(prompts) : ~prompts[k][2]

\* C26: a step that issues a delete request for a log, a shift, a series or
\* a category follows an accepted prompt of that kind, and issues that one
\* request only; a click whose prompts are all declined issues none; for a
\* recurring shift the series is deleted exactly when the first prompt is
\* accepted, and the single shift exactly when the first is declined and
\* the second accepted.
C26_DeleteOnlyWhenConfirmed ==
    [][ /\ CalDeleteIssued =>
              LET r == calInFlight'[Len(calInFlight')]
              IN  /\ calInFlight' = Append(calInFlight, r)
                  /\ r.kind = "deleteLog" =>
                        calPrompts' = << <<LogPrompt, TRUE>> >>
                  /\ r.kind = "deleteShiftSeries" =>
                        calPrompts' = << <<SeriesPrompt, TRUE>> >>
                  /\ r.kind = "deleteShift" =>
                        \E shift \in calShifts :
                            /\ shift.id = r.id
                            /\ calPrompts' =
                                  IF shift.series_id # Null
                                  THEN << <<SeriesPrompt, FALSE>>, <<SinglePrompt, TRUE>> >>
                                  ELSE << <<ShiftPrompt, TRUE>> >>
        /\ CategoryDeleteIssued =>
              /\ catPrompts' = << <<"delete this category?", TRUE>> >>
              /\ catInFlight' = Append(catInFlight, catInFlight'[Len(catInFlight')])
        /\ (calPrompts' # calPrompts /\ AllDeclined(calPrompts'))
              => UNCHANGED calInFlight
        /\ (catPrompts' # catPrompts /\ AllDeclined(catPrompts'))
              => UNCHANGED catInFlight
      ]_vars

\* C26 happens: on a shift of series A the first prompt was declined and the
\* second accepted, and the one request in flight deletes shift 1 alone
C26_Witness ==
    /\ calPrompts = << <<SeriesPrompt, FALSE>>, <<SinglePrompt, TRUE>> >>
    /\ calInFlight = << [kind |-> "deleteShift", id |-> 1] >>
    /\ [id |-> 2, series_id |-> Some("A")] \in calShifts


\* ================= properties of generateRecurringShifts =================

\* the local days from the day of startDate to the day of startDate plus
\* durationYears whose weekday is selected, in ascending order
SelectedDates(args) ==
    LET first == LocalDay(args.startDate)
        last  == LocalDay(SetFullYearPlus(args.startDate, args.durationYears))
        Selected(day) == ((day + 4) % 7) \in args.selectedDays
    IN  SelectSeq([k \in 1..(last - first + 1) |-> first + k - 1], Selected)

\* C29: the shifts returned are, in order, one for each selected calendar
\* day from startDate to startDate plus durationYears, each starting on its
\* day at startTime; with no day selected none is returned.
C29_OneShiftPerSelectedDay ==
    genPc = "returned" =>
        LET dates == SelectedDates(genArgs)
        IN  /\ Len(genShifts) = Len(dates)
            /\ \A k \in 1..Len(dates) :
                  FromISOString(genShifts[k].start_time, genArgs.offset)
                      = dates[k] * MinutesPerDay + genArgs.startTime
            /\ genArgs.selectedDays = {} => genShifts = <<>>

\* C30: every generated shift ends on the calendar day after its start when
\* endTime is earlier in the day than startTime and on the same day
\* otherwise, so it never ends before it starts and lasts less than 24 hours.
C30_OvernightEndsNextDay ==
    \A k \in 1..Len(genShifts) :
        LET s == FromISOString(genShifts[k].start_time, genArgs.offset)
            e == FromISOString(genShifts[k].end_time, genArgs.offset)
        IN  /\ LocalDay(e) = LocalDay(s)
                  + (IF genArgs.endTime < genArgs.startTime THEN 1 ELSE 0)
            /\ s <= e
            /\ e - s < MinutesPerDay

\* C30 happens: a year of Monday shifts from 22:00 to 06:00 was returned and
\* the first of them ends on the day after it starts, eight hours later
C30_Witness ==
    /\ genPc = "returned"
    /\ genArgs.startTime = 22 * 60 /\ genArgs.endTime = 6 * 60
    /\ genArgs.durationYears = 1
    /\ Len(genShifts) > 50
    /\ genShifts[1].end_time - genShifts[1].start_time = 8 * 60
    /\ LocalDay(FromISOString(genShifts[1].end_time, genArgs.offset))
          = LocalDay(FromISOString(genShifts[1].start_time, genArgs.offset)) + 1

====
